---- MODULE Spec2Model ----
(***************************************************************************)
(* The indexing and persistence engine of cosmos-tax-indexer (db/db.go,    *)
(* db/osmosis.go) as a state machine over the relational store.            *)
(*                                                                         *)
(* A table is the sequence of its rows in primary-key order; the ID of a   *)
(* row is its position (auto-increment keys are opaque, only their order   *)
(* and equality are observable: gorm's First/FirstOrCreate order by the    *)
(* primary key).  A nullable foreign key holds 0 for NULL.                 *)
(*                                                                         *)
(* gorm builds the condition of Where(<struct>) from the struct's non-zero *)
(* column fields only: zero-valued fields and association fields (a nested *)
(* Chain, Address, ...) add no condition.  Every lookup below is written   *)
(* with the columns the call site actually leaves non-zero.                *)
(***************************************************************************)
EXTENDS Integers, Sequences, FiniteSets, TLC

VARIABLES
    db,        \* the store: one field per table (rows of open
               \* transactions included, see sessions)
    last,      \* the last operation, its arguments and what it returned
    pending,   \* <<height, chain id>> whose latest event is a recorded failure
    running,   \* the indexer process is alive
    sessions   \* the open transactions of the writers, statement by statement

vars == <<db, last, pending, running, sessions>>

----------------------------------------------------------------------------
(* Bounds of the model *)

\* heights 1..MaxHeight are written by the block indexer
MaxHeight == 2
\* heights 1..GapMaxHeight in the gap-detection specification
GapMaxHeight == 5
\* heights 1..SideMaxHeight get rows of the second chain / reward anchors there
SideMaxHeight == 2
\* heights 1..RewardMaxHeight in the reward-ingestion specification
RewardMaxHeight == 1
\* heights 1..ConcurrentMaxHeight are written by the concurrent writers
ConcurrentMaxHeight == 2
\* heights 1..CrashMaxHeight are the range of the run that can crash
CrashMaxHeight == 3

Heights == 1..MaxHeight
\* block timestamps (0 is Go's zero time.Time)
Times == {1, 2}

\* chain_id strings known to the operators; Name is fixed per chain_id
ChainIDs == <<"cosmoshub-4", "osmosis-1">>

----------------------------------------------------------------------------
(* Decoded input: TxDBWrapper lists handed to IndexNewBlock *)

NoAddr == ""

uatom == [ID |-> 1, Base |-> "uatom", Symbol |-> "ATOM"]
uosmo == [ID |-> 2, Base |-> "uosmo", Symbol |-> "OSMO"]
\* a denomination the decoder could not resolve
nodenom == [ID |-> 0, Base |-> "", Symbol |-> ""]

Fee(amount, denom, payer) ==
    [Amount |-> amount, Denomination |-> denom, PayerAddress |-> payer]

TaxableTx(sent, recv, dSent, dRecv, sender, receiver) ==
    [AmountSent |-> sent, AmountReceived |-> recv,
     DenominationSentID |-> dSent, DenominationReceivedID |-> dRecv,
     SenderAddress |-> sender, ReceiverAddress |-> receiver]

Msg(type, index, taxable) ==
    [MessageType |-> type, MessageIndex |-> index, TaxableTxs |-> taxable]

TxW(hash, signer, fees, msgs) ==
    [Hash |-> hash, Code |-> 0, SignerAddress |-> signer,
     Fees |-> fees, Messages |-> msgs]

MsgSend == "/cosmos.bank.v1beta1.MsgSend"
MsgDelegate == "/cosmos.staking.v1beta1.MsgDelegate"

send500 == TaxableTx(500, 500, 1, 1, "cosmos1foo", "cosmos1bar")
send500b == TaxableTx(500, 500, 1, 1, "cosmos1foo", "cosmos1baz")

\* hash abc123: one fee of 500 uatom paid by cosmos1foo, one MsgSend
txGood == TxW("abc123", "cosmos1foo", <<Fee(500, uatom, "cosmos1foo")>>,
              <<Msg(MsgSend, 0, <<send500>>)>>)
\* two fees, two messages, two transfers of equal amounts in one message
txMulti == TxW("def456", NoAddr,
               <<Fee(7, uatom, "cosmos1bar"), Fee(9, uosmo, "cosmos1bar")>>,
               <<Msg(MsgSend, 0, <<send500, send500b>>),
                 Msg(MsgDelegate, 1, <<>>)>>)
\* a valid fee, then a fee without payer
txNoPayer == TxW("bad001", "cosmos1baz",
                 <<Fee(5, uatom, "cosmos1baz"), Fee(6, uosmo, NoAddr)>>,
                 <<Msg(MsgSend, 0, <<send500>>)>>)
\* a fee whose denomination is not resolved
txNoDenom == TxW("bad002", "cosmos1baz", <<Fee(5, nodenom, "cosmos1baz")>>,
                 <<>>)
\* a message without message type
txNoType == TxW("bad003", "cosmos1baz", <<Fee(5, uatom, "cosmos1baz")>>,
                <<Msg("", 0, <<send500>>)>>)

\* hash fed654: signed and paid by cosmos1bar, who sends to cosmos1foo
txBack == TxW("fed654", "cosmos1bar", <<Fee(500, uatom, "cosmos1bar")>>,
              <<Msg(MsgSend, 0,
                    <<TaxableTx(500, 500, 1, 1, "cosmos1bar",
                                "cosmos1foo")>>)>>)

\* hash abc123 once more, decoded with another code, signer, fee amount and
\* payer
txChanged == [TxW("abc123", "cosmos1bar", <<Fee(700, uatom, "cosmos1bar")>>,
                  <<Msg(MsgSend, 0, <<send500>>)>>) EXCEPT !.Code = 5]

\* the decoded blocks the orchestrator hands over
DecodedBlocks ==
    [empty |-> <<>>,
     good |-> <<txGood>>,
     multi |-> <<txGood, txMulti>>,
     nopayer |-> <<txGood, txNoPayer>>,
     nodenom |-> <<txGood, txNoDenom>>,
     notype |-> <<txGood, txNoType>>,
     changed |-> <<txChanged>>]

\* the decoded blocks of the concurrent writers
WriterBlocks ==
    [good |-> DecodedBlocks.good, multi |-> DecodedBlocks.multi,
     nopayer |-> DecodedBlocks.nopayer, back |-> <<txBack>>]

\* the fee at any position of any transaction is a data-integrity failure
BadFee(fee) ==
    \/ fee.PayerAddress = NoAddr
    \/ fee.Denomination.Base = ""
    \/ fee.Denomination.Symbol = ""

HasBadFee(txs) ==
    \E i \in DOMAIN txs : \E j \in DOMAIN txs[i].Fees : BadFee(txs[i].Fees[j])

HasEmptyType(txs) ==
    \E i \in DOMAIN txs : \E j \in DOMAIN txs[i].Messages :
        txs[i].Messages[j].MessageType = ""

----------------------------------------------------------------------------
(* The store *)

EmptyDB ==
    [chains |-> <<>>, blocks |-> <<>>, failed_blocks |-> <<>>,
     addresses |-> <<>>, txes |-> <<>>, fees |-> <<>>,
     message_types |-> <<>>, messages |-> <<>>,
     taxable_tx |-> <<>>, taxable_event |-> <<>>,
     denoms |-> <<>>, denom_units |-> <<>>, denom_unit_aliases |-> <<>>]

\* the state of a transaction body: the store as the transaction sees it and
\* the error it has returned so far ("" is nil)
Ok(d) == [db |-> d, err |-> ""]
Fail(d, e) == [db |-> d, err |-> e]

ErrFatal == "fatal: Message type not getting to DB"
ErrNoPayer == "fee cannot have empty payer address"
ErrNoDenom == "denom not cached"
ErrUnique == "duplicate key value violates unique constraint"
ErrStorage == "storage error"

\* `if err != nil { return err }` after a statement that returned s, then
\* the statements F that follow it
Bind(s, F(_)) ==
    CHOOSE r \in {IF x.err # "" THEN Fail(x.db, x.err) ELSE F(x) : x \in {s}} :
        TRUE

\* position of the first row (lowest primary key) in S, 0 when there is none
FirstIn(S) == IF S = {} THEN 0 ELSE CHOOSE i \in S : \A j \in S : i <= j

----------------------------------------------------------------------------
(* Uniqueness constraints of the schema, enforced by the store on INSERT *)

\* fault variant: event_hash without a unique index
UniqueKeyNoEventHash(tbl, r) ==
    CASE tbl = "chains" -> <<r.ChainID>>
      [] tbl = "blocks" -> <<r.Height, r.BlockchainID>>
      [] tbl = "failed_blocks" -> <<r.Height, r.BlockchainID>>
      [] tbl = "addresses" -> <<r.Address>>
      [] tbl = "txes" -> <<r.Hash>>
      [] tbl = "fees" -> <<r.TxID, r.DenominationID>>
      [] tbl = "message_types" -> <<r.MessageType>>
      [] tbl = "messages" -> <<r.TxID, r.MessageTypeID, r.MessageIndex>>
      [] tbl = "denoms" -> <<r.Base>>
      [] tbl = "denom_units" -> <<r.Name>>
      [] tbl = "denom_unit_aliases" -> <<r.Alias>>
      [] OTHER -> <<>>

\* the unique key of a row of table tbl; <<>> for a table without one
UniqueKey(tbl, r) ==
    CASE tbl = "chains" -> <<r.ChainID>>
      [] tbl = "blocks" -> <<r.Height, r.BlockchainID>>
      [] tbl = "failed_blocks" -> <<r.Height, r.BlockchainID>>
      [] tbl = "addresses" -> <<r.Address>>
      [] tbl = "txes" -> <<r.Hash>>
      [] tbl = "fees" -> <<r.TxID, r.DenominationID>>
      [] tbl = "message_types" -> <<r.MessageType>>
      [] tbl = "messages" -> <<r.TxID, r.MessageTypeID, r.MessageIndex>>
      [] tbl = "denoms" -> <<r.Base>>
      [] tbl = "denom_units" -> <<r.Name>>
      [] tbl = "denom_unit_aliases" -> <<r.Alias>>
      [] tbl = "taxable_event" -> <<r.EventHash>>
      [] OTHER -> <<>>

\* gorm Create: INSERT one row; its ID is the next primary key
Create(d, tbl, r) ==
    IF /\ UniqueKey(tbl, r) # <<>>
       /\ \E k \in DOMAIN d[tbl] : UniqueKey(tbl, d[tbl][k]) = UniqueKey(tbl, r)
    THEN [db |-> d, id |-> 0, err |-> ErrUnique]
    ELSE [db |-> [d EXCEPT ![tbl] = Append(@, r)],
          id |-> Len(d[tbl]) + 1, err |-> ""]

\* fault variant: FirstOrCreate with Assign of every attribute, the row found
\* is overwritten
FirstOrCreateAssign(d, tbl, matching, r) ==
    IF matching # {}
    THEN [db |-> [d EXCEPT ![tbl][FirstIn(matching)] = r],
          id |-> FirstIn(matching), err |-> ""]
    ELSE Create(d, tbl, r)

\* gorm FirstOrCreate: the first row among the matching positions, else Create
FirstOrCreate(d, tbl, matching, r) ==
    IF matching # {}
    THEN [db |-> d, id |-> FirstIn(matching), err |-> ""]
    ELSE Create(d, tbl, r)

----------------------------------------------------------------------------
(* db.go: IndexNewBlock *)

\* DELETE FROM failed_blocks WHERE height = ? AND blockchain_id = ?
DeleteFailedBlock(d, blockHeight, dbChainID) ==
    [d EXCEPT !.failed_blocks =
        SelectSeq(@, LAMBDA r :
            ~(r.Height = blockHeight /\ r.BlockchainID = dbChainID))]

\* fault variant: FirstOrCreate without the Assign
UpsertBlockNoAssign(d, blockHeight, blockTime, dbChainID) ==
    FirstOrCreate(d, "blocks",
        {k \in DOMAIN d.blocks :
            /\ d.blocks[k].Height = blockHeight
            /\ d.blocks[k].BlockchainID = dbChainID},
        [Height |-> blockHeight, TimeStamp |-> blockTime,
         Indexed |-> TRUE, BlockchainID |-> dbChainID])

\* Where(Block{Height, BlockchainID}).Assign(Block{Indexed, TimeStamp})
\*     .FirstOrCreate(&block)
UpsertBlock(d, blockHeight, blockTime, dbChainID) ==
    LET found == {k \in DOMAIN d.blocks :
                    /\ d.blocks[k].Height = blockHeight
                    /\ d.blocks[k].BlockchainID = dbChainID}
        i == FirstIn(found)
    IN  IF i # 0
        THEN [db |-> [d EXCEPT !.blocks[i].Indexed = TRUE,
                               !.blocks[i].TimeStamp = blockTime],
              id |-> i, err |-> ""]
        ELSE Create(d, "blocks",
                    [Height |-> blockHeight, TimeStamp |-> blockTime,
                     Indexed |-> TRUE, BlockchainID |-> dbChainID])

\* Where(Address{Address: a}).FirstOrCreate(&address), a # ""
GetOrCreateAddress(d, a) ==
    FirstOrCreate(d, "addresses",
        {k \in DOMAIN d.addresses : d.addresses[k].Address = a},
        [Address |-> a])

\* the optional signer: (store, SignerAddressID or 0, error)
SignerAddress(d, a) ==
    IF a # NoAddr THEN GetOrCreateAddress(d, a)
    ELSE [db |-> d, id |-> 0, err |-> ""]

\* fault variant: txOnly built before the Block row is there, BlockID zero
GetOrCreateTxBeforeBlock(d, hash, code, blockID, signerID) ==
    FirstOrCreate(d, "txes",
        {k \in DOMAIN d.txes : d.txes[k].Hash = hash},
        [Hash |-> hash, Code |-> code, BlockID |-> 0,
         SignerAddressID |-> signerID])

\* Where(Tx{Hash}).FirstOrCreate(&txOnly)
GetOrCreateTx(d, hash, code, blockID, signerID) ==
    FirstOrCreate(d, "txes",
        {k \in DOMAIN d.txes : d.txes[k].Hash = hash},
        [Hash |-> hash, Code |-> code, BlockID |-> blockID,
         SignerAddressID |-> signerID])

\* fault variant: the fee looked up by its transaction alone
GetOrCreateFeeByTx(d, txID, amount, denomID, payerID) ==
    FirstOrCreate(d, "fees",
        {k \in DOMAIN d.fees : d.fees[k].TxID = txID},
        [TxID |-> txID, Amount |-> amount, DenominationID |-> denomID,
         PayerAddressID |-> payerID])

\* Where(Fee{TxID, DenominationID}).FirstOrCreate(&thisFee)
GetOrCreateFee(d, txID, amount, denomID, payerID) ==
    FirstOrCreate(d, "fees",
        {k \in DOMAIN d.fees :
            /\ d.fees[k].TxID = txID
            /\ (denomID = 0 \/ d.fees[k].DenominationID = denomID)},
        [TxID |-> txID, Amount |-> amount, DenominationID |-> denomID,
         PayerAddressID |-> payerID])

\* one iteration of the loop over transaction.Tx.Fees
IndexFee(d, txID, fee) ==
    IF fee.PayerAddress = NoAddr THEN Fail(d, ErrNoPayer)
    ELSE Bind(GetOrCreateAddress(d, fee.PayerAddress), LAMBDA a :
            IF fee.Denomination.Base = "" \/ fee.Denomination.Symbol = ""
            THEN Fail(a.db, ErrNoDenom)
            ELSE Bind(GetOrCreateFee(a.db, txID, fee.Amount,
                                     fee.Denomination.ID, a.id),
                      LAMBDA f : Ok(f.db)))

RECURSIVE IndexFees(_, _, _, _)
IndexFees(d, txID, fees, i) ==
    IF i > Len(fees) THEN Ok(d)
    ELSE Bind(IndexFee(d, txID, fees[i]),
              LAMBDA s : IndexFees(s.db, txID, fees, i + 1))

\* Where(&MessageType{MessageType}).FirstOrCreate(...)
GetOrCreateMessageType(d, type) ==
    FirstOrCreate(d, "message_types",
        {k \in DOMAIN d.message_types : d.message_types[k].MessageType = type},
        [MessageType |-> type])

\* Where(Message{TxID, MessageTypeID, MessageIndex}).FirstOrCreate(&msg):
\* MessageIndex 0 is a zero value and adds no condition
GetOrCreateMessage(d, txID, typeID, index) ==
    FirstOrCreate(d, "messages",
        {k \in DOMAIN d.messages :
            /\ d.messages[k].TxID = txID
            /\ d.messages[k].MessageTypeID = typeID
            /\ (index = 0 \/ d.messages[k].MessageIndex = index)},
        [TxID |-> txID, MessageTypeID |-> typeID, MessageIndex |-> index])

\* fault variant: Create instead of FirstOrCreate
CreateTaxableTx(d, msgID, t, senderID, receiverID) ==
    Create(d, "taxable_tx",
        [MessageID |-> msgID, AmountSent |-> t.AmountSent,
         AmountReceived |-> t.AmountReceived,
         DenominationSentID |-> t.DenominationSentID,
         DenominationReceivedID |-> t.DenominationReceivedID,
         SenderAddressID |-> senderID, ReceiverAddressID |-> receiverID])

\* Where(TaxableTransaction{MessageID, AmountSent, AmountReceived})
\*     .FirstOrCreate(&thisTaxableTx)
GetOrCreateTaxableTx(d, msgID, t, senderID, receiverID) ==
    FirstOrCreate(d, "taxable_tx",
        {k \in DOMAIN d.taxable_tx :
            /\ d.taxable_tx[k].MessageID = msgID
            /\ (t.AmountSent = 0 \/ d.taxable_tx[k].AmountSent = t.AmountSent)
            /\ (t.AmountReceived = 0
                  \/ d.taxable_tx[k].AmountReceived = t.AmountReceived)},
        [MessageID |-> msgID, AmountSent |-> t.AmountSent,
         AmountReceived |-> t.AmountReceived,
         DenominationSentID |-> t.DenominationSentID,
         DenominationReceivedID |-> t.DenominationReceivedID,
         SenderAddressID |-> senderID, ReceiverAddressID |-> receiverID])

\* one iteration of the loop over message.TaxableTxs
IndexTaxableTx(d, msgID, t) ==
    Bind(SignerAddress(d, t.SenderAddress), LAMBDA snd :
        Bind(SignerAddress(snd.db, t.ReceiverAddress), LAMBDA rcv :
            Bind(GetOrCreateTaxableTx(rcv.db, msgID, t, snd.id, rcv.id),
                 LAMBDA r : Ok(r.db))))

RECURSIVE IndexTaxableTxs(_, _, _, _)
IndexTaxableTxs(d, msgID, ts, i) ==
    IF i > Len(ts) THEN Ok(d)
    ELSE Bind(IndexTaxableTx(d, msgID, ts[i]),
              LAMBDA s : IndexTaxableTxs(s.db, msgID, ts, i + 1))

\* one iteration of the loop over transaction.Messages
IndexMessage(d, txID, m) ==
    IF m.MessageType = "" THEN Fail(d, ErrFatal)
    ELSE Bind(GetOrCreateMessageType(d, m.MessageType), LAMBDA mt :
            Bind(GetOrCreateMessage(mt.db, txID, mt.id, m.MessageIndex),
                 LAMBDA msg :
                    IndexTaxableTxs(msg.db, msg.id, m.TaxableTxs, 1)))

RECURSIVE IndexMessages(_, _, _, _)
IndexMessages(d, txID, msgs, i) ==
    IF i > Len(msgs) THEN Ok(d)
    ELSE Bind(IndexMessage(d, txID, msgs[i]),
              LAMBDA s : IndexMessages(s.db, txID, msgs, i + 1))

\* one iteration of the loop over txs
IndexTx(d, blockID, tx) ==
    Bind(SignerAddress(d, tx.SignerAddress), LAMBDA sg :
        Bind(GetOrCreateTx(sg.db, tx.Hash, tx.Code, blockID, sg.id),
             LAMBDA t :
                Bind(IndexFees(t.db, t.id, tx.Fees, 1), LAMBDA f :
                    IndexMessages(f.db, t.id, tx.Messages, 1))))

RECURSIVE IndexTxs(_, _, _, _)
IndexTxs(d, blockID, txs, i) ==
    IF i > Len(txs) THEN Ok(d)
    ELSE Bind(IndexTx(d, blockID, txs[i]),
              LAMBDA s : IndexTxs(s.db, blockID, txs, i + 1))

\* the body of the transaction of IndexNewBlock
IndexNewBlockTx(d, blockHeight, blockTime, txs, dbChainID) ==
    Bind(UpsertBlock(DeleteFailedBlock(d, blockHeight, dbChainID),
                     blockHeight, blockTime, dbChainID),
         LAMBDA b : IndexTxs(b.db, b.id, txs, 1))

\* fault variant: the statements run outside a transaction
NoTransaction(d, s) == s.db

\* db.Transaction(fc): commit when fc returns nil, roll back otherwise
Transaction(d, s) == IF s.err = "" THEN s.db ELSE d

\* the store after db.Transaction(fc) and the error it hands to its caller
Committed(d, s) == [db |-> Transaction(d, s), err |-> s.err]

----------------------------------------------------------------------------
(* db.go: chains, failed blocks, gap detection *)

\* the Name the operators configure for a chain_id
ChainName(chainID) ==
    IF chainID = "cosmoshub-4" THEN "Cosmos Hub" ELSE "Osmosis"

\* Where(&chain).FirstOrCreate(&chain) with Chain{ChainID, Name}
GetOrCreateChain(d, chainID, chainName) ==
    FirstOrCreate(d, "chains",
        {k \in DOMAIN d.chains :
            /\ d.chains[k].ChainID = chainID
            /\ d.chains[k].Name = chainName},
        [ChainID |-> chainID, Name |-> chainName])

\* GetDBChainID: one statement, no enclosing transaction
GetDBChainID(d, chainID, chainName) == GetOrCreateChain(d, chainID, chainName)

\* Where(&failedBlock).FirstOrCreate(&failedBlock) with
\* FailedBlock{Height, Chain: Chain{...}}: BlockchainID is still zero and the
\* nested Chain is an association, so the condition is on height alone; the
\* created row gets BlockchainID from the loaded Chain
GetOrCreateFailedBlock(d, blockHeight, chainRowID) ==
    FirstOrCreate(d, "failed_blocks",
        {k \in DOMAIN d.failed_blocks :
            d.failed_blocks[k].Height = blockHeight},
        [Height |-> blockHeight, BlockchainID |-> chainRowID])

\* the body of the transaction of UpsertFailedBlock
UpsertFailedBlockTx(d, blockHeight, chainID, chainName) ==
    Bind(GetOrCreateChain(d, chainID, chainName), LAMBDA c :
        Bind(GetOrCreateFailedBlock(c.db, blockHeight, c.id),
             LAMBDA f : Ok(f.db)))

\* insert x into the ascending sequence s, after the elements equal to it
RECURSIVE InsertAsc(_, _)
InsertAsc(s, x) ==
    IF s = <<>> THEN <<x>>
    ELSE IF x < Head(s) THEN <<x>> \o s
    ELSE <<Head(s)>> \o InsertAsc(Tail(s), x)

RECURSIVE SortAsc(_)
SortAsc(s) ==
    IF s = <<>> THEN <<>>
    ELSE InsertAsc(SortAsc(SubSeq(s, 1, Len(s) - 1)), s[Len(s)])

\* heights of the selected rows of a table, in primary-key order
RECURSIVE HeightsOf(_)
HeightsOf(rows) ==
    IF rows = <<>> THEN <<>> ELSE <<Head(rows).Height>> \o HeightsOf(Tail(rows))

\* GetFailedBlocks: WHERE blockchain_id = ? ORDER BY height asc (the heights
\* of the rows returned)
GetFailedBlocks(d, chainID) ==
    SortAsc(HeightsOf(SelectSeq(d.failed_blocks,
                                LAMBDA r : r.BlockchainID = chainID)))

\* fault variant: the subquery without "AND indexed = true"
IndexedHeightsAnyRow(d, chainID) ==
    {d.blocks[k].Height : k \in {j \in DOMAIN d.blocks :
        d.blocks[j].BlockchainID = chainID}}

IndexedHeights(d, chainID) ==
    {d.blocks[k].Height : k \in {j \in DOMAIN d.blocks :
        d.blocks[j].BlockchainID = chainID /\ d.blocks[j].Indexed}}

\* GetHighestIndexedBlock(...).Height: ORDER BY height desc, First; the zero
\* Block (Height 0) when no row is found
GetHighestIndexedBlock(d, chainID) ==
    LET hs == IndexedHeights(d, chainID)
    IN  IF hs = {} THEN 0 ELSE CHOOSE h \in hs : \A g \in hs : g <= h

\* fault variant: the comparison with start as >=
EffectiveEndFromStart(d, start, end, chainID) ==
    IF GetHighestIndexedBlock(d, chainID) >= start
    THEN GetHighestIndexedBlock(d, chainID) + 1
    ELSE end

\* the upper bound handed to generate_series
EffectiveEnd(d, start, end, chainID) ==
    IF GetHighestIndexedBlock(d, chainID) > start
    THEN GetHighestIndexedBlock(d, chainID) + 1
    ELSE end

\* fault variant: the "no rows in result set" branch leaves the zero value
GetFirstMissingNoFallback(d, start, end, chainID) ==
    LET missing == {h \in start..EffectiveEnd(d, start, end, chainID) :
                        h \notin IndexedHeights(d, chainID)}
    IN  IF missing = {} THEN 0
        ELSE CHOOSE h \in missing : \A g \in missing : h <= g

\* GetFirstMissingBlockInRange: first height of generate_series(start, end)
\* without an indexed row; start when the query returns no row
GetFirstMissingBlockInRange(d, start, end, chainID) ==
    LET missing == {h \in start..EffectiveEnd(d, start, end, chainID) :
                        h \notin IndexedHeights(d, chainID)}
    IN  IF missing = {} THEN start
        ELSE CHOOSE h \in missing : \A g \in missing : h <= g

----------------------------------------------------------------------------
(* db.go: UpsertDenoms *)

\* the entries of a call: a denom, its units and their aliases; StoreErr names
\* the statement of the entry that the store answers with an error ("" for
\* none)
DenomAlias(alias) == [Alias |-> alias]
DenomUnit(name, exponent, aliases) ==
    [DenomUnit |-> [Name |-> name, Exponent |-> exponent], Aliases |-> aliases]
DenomDBWrapper(base, symbol, name, units, storeErr) ==
    [Denom |-> [Base |-> base, Symbol |-> symbol, Name |-> name],
     DenomUnits |-> units, StoreErr |-> storeErr]

\* the entries handed to UpsertDenoms: two bases, a first and a changed
\* symbol and name, two unit names, two exponents, one alias
DenomEntries ==
    {DenomDBWrapper(b, sy, IF sy = "ATOM" THEN "Cosmos" ELSE "Cosmos Hub",
                    <<DenomUnit(un, ex, <<DenomAlias("micro")>>)>>, e) :
        b \in {"uatom", "uosmo"}, sy \in {"ATOM", "ATOM2"},
        un \in {"atom", "osmo"}, ex \in {6, 8},
        e \in {"", "denom", "unit", "alias"}}

\* the calls: one entry, or uatom/ATOM followed by a second entry
DenomLists ==
    {<<w>> : w \in DenomEntries}
        \cup {<<DenomDBWrapper("uatom", "ATOM", "Cosmos",
                               <<DenomUnit("atom", 6,
                                           <<DenomAlias("micro")>>)>>, ""),
                 w>> : w \in {v \in DenomEntries : v.DenomUnits[1].DenomUnit.Exponent = 8}}

\* fault variant: ON CONFLICT (base) DO NOTHING
UpsertDenomDoNothing(d, w) ==
    IF w.StoreErr = "denom" THEN [db |-> d, id |-> 0, err |-> ErrStorage]
    ELSE FirstOrCreate(d, "denoms",
            {k \in DOMAIN d.denoms : d.denoms[k].Base = w.Denom.Base},
            w.Denom)

\* INSERT INTO denoms ... ON CONFLICT (base) DO UPDATE SET symbol, name
\* RETURNING id
UpsertDenom(d, w) ==
    IF w.StoreErr = "denom" THEN [db |-> d, id |-> 0, err |-> ErrStorage]
    ELSE IF \E k \in DOMAIN d.denoms : d.denoms[k].Base = w.Denom.Base
    THEN [db |-> [d EXCEPT !.denoms = [k \in DOMAIN @ |->
                    IF @[k].Base = w.Denom.Base
                    THEN [@[k] EXCEPT !.Symbol = w.Denom.Symbol,
                                      !.Name = w.Denom.Name]
                    ELSE @[k]]],
          id |-> FirstIn({k \in DOMAIN d.denoms :
                            d.denoms[k].Base = w.Denom.Base}),
          err |-> ""]
    ELSE Create(d, "denoms", w.Denom)

\* INSERT INTO denom_units ... ON CONFLICT (name) DO UPDATE SET exponent
\* RETURNING id; the row created refers to the denom just written
UpsertDenomUnit(d, w, denomID, u) ==
    IF w.StoreErr = "unit" THEN [db |-> d, id |-> 0, err |-> ErrStorage]
    ELSE IF \E k \in DOMAIN d.denom_units :
                d.denom_units[k].Name = u.DenomUnit.Name
    THEN [db |-> [d EXCEPT !.denom_units = [k \in DOMAIN @ |->
                    IF @[k].Name = u.DenomUnit.Name
                    THEN [@[k] EXCEPT !.Exponent = u.DenomUnit.Exponent]
                    ELSE @[k]]],
          id |-> FirstIn({k \in DOMAIN d.denom_units :
                            d.denom_units[k].Name = u.DenomUnit.Name}),
          err |-> ""]
    ELSE Create(d, "denom_units",
                [DenomID |-> denomID, Name |-> u.DenomUnit.Name,
                 Exponent |-> u.DenomUnit.Exponent])

\* INSERT INTO denom_unit_aliases ... ON CONFLICT DO NOTHING
CreateDenomUnitAlias(d, w, unitID, a) ==
    IF w.StoreErr = "alias" THEN [db |-> d, id |-> 0, err |-> ErrStorage]
    ELSE FirstOrCreate(d, "denom_unit_aliases",
            {k \in DOMAIN d.denom_unit_aliases :
                d.denom_unit_aliases[k].Alias = a.Alias},
            [DenomUnitID |-> unitID, Alias |-> a.Alias])

\* the loop over denomUnit.Aliases
RECURSIVE UpsertAliases(_, _, _, _, _)
UpsertAliases(d, w, unitID, aliases, i) ==
    IF i > Len(aliases) THEN Ok(d)
    ELSE Bind(CreateDenomUnitAlias(d, w, unitID, aliases[i]),
              LAMBDA s : UpsertAliases(s.db, w, unitID, aliases, i + 1))

\* the loop over denom.DenomUnits
RECURSIVE UpsertDenomUnits(_, _, _, _)
UpsertDenomUnits(d, w, denomID, i) ==
    IF i > Len(w.DenomUnits) THEN Ok(d)
    ELSE Bind(UpsertDenomUnit(d, w, denomID, w.DenomUnits[i]), LAMBDA u :
            Bind(UpsertAliases(u.db, w, u.id, w.DenomUnits[i].Aliases, 1),
                 LAMBDA s : UpsertDenomUnits(s.db, w, denomID, i + 1)))

\* the body of the transaction of UpsertDenoms
RECURSIVE UpsertDenomsTx(_, _, _)
UpsertDenomsTx(d, denoms, i) ==
    IF i > Len(denoms) THEN Ok(d)
    ELSE Bind(UpsertDenom(d, denoms[i]), LAMBDA dn :
            Bind(UpsertDenomUnits(dn.db, denoms[i], dn.id, 1),
                 LAMBDA s : UpsertDenomsTx(s.db, denoms, i + 1)))

\* the committed store and the error returned
UpsertDenoms(d, denoms) == Committed(d, UpsertDenomsTx(d, denoms, 1))

----------------------------------------------------------------------------
(* osmosis.go: reward ingestion *)

batchSize == 500

Coin(denom, amount) == [Denom |-> denom, Amount |-> amount]
Reward(address, height, coins) ==
    [Address |-> address, EpochBlockHeight |-> height, Coins |-> coins]

\* one reward record of osmo1bbb with n coins of uion, of amounts 1..n
ManyCoins(h, n) ==
    Reward("osmo1bbb", h, [i \in 1..n |-> Coin("uion", i)])

\* the reward lists the reward source hands over for epoch height h: two
\* short ones, one of batchSize + 2 candidates, one of 2 * batchSize + 2
\* candidates of which two are the same and fall into the second batch, and
\* one with a coin whose cached denomination has no symbol
RewardLists(h) ==
    << <<Reward("osmo1aaa", h, <<Coin("uosmo", 1), Coin("uion", 1)>>)>>,
       <<Reward("osmo1aaa", h, <<Coin("uosmo", 1)>>),
         Reward("osmo1aaa", h, <<Coin("uosmo", 1)>>),
         Reward("osmo1bbb", h, <<Coin("uosmo", 1)>>)>>,
       <<ManyCoins(h, batchSize + 2)>>,
       <<ManyCoins(h, 2 * batchSize + 1),
         Reward("osmo1bbb", h, <<Coin("uion", 7)>>)>>,
       <<Reward("osmo1aaa", h, <<Coin("uosmo", 2), Coin("ubad", 2),
                                 Coin("uosmo", 3)>>)>> >>

\* the orders a caller may hand one list in: the list turned round, rotated
\* by one or by two places, and both (every order of a list of up to three)
Rev(s) == [i \in DOMAIN s |-> s[Len(s) + 1 - i]]
Rot(s) == [i \in DOMAIN s |-> s[(i % Len(s)) + 1]]
Shuffle(s, n) ==
    CASE n = 1 -> s
      [] n = 2 -> Rot(s)
      [] n = 3 -> Rot(Rot(s))
      [] n = 4 -> Rev(s)
      [] n = 5 -> Rev(Rot(s))
      [] OTHER -> Rev(Rot(Rot(s)))

\* the records of a list in the order a, the coins of each record in the
\* order b
ShuffledRewards(rewards, a, b) ==
    Shuffle([i \in DOMAIN rewards |->
                [rewards[i] EXCEPT !.Coins = Shuffle(@, b)]], a)

\* the orders of the short lists and of the lists of more than one batch
ShortOrders == 1..6
LongOrders == {1, 4}

\* the short lists and the lists of more than one batch
ShortLists == {1, 2}
LongLists == {3, 4}

\* the denomination cache behind GetDenomForBase
GetDenomForBase(base) ==
    IF base = "uosmo" THEN uosmo
    ELSE IF base = "uion" THEN [ID |-> 3, Base |-> "uion", Symbol |-> "ION"]
    ELSE [ID |-> 4, Base |-> base, Symbol |-> ""]

\* fmt.Sprint(address, height, coin) and its md5 digest in hex: a code that is
\* one-to-one on (address, height, coin), then a fixed scrambling of the codes
\* (the order of the digests is unrelated to the order of the inputs)
SprintCode(address, height, coin) ==
    (((IF address = "osmo1aaa" THEN 0 ELSE 1) * 16 + height) * 2
        + (IF coin.Denom = "uosmo" THEN 0 ELSE 1)) * 2048 + coin.Amount

EventHash(address, height, coin) ==
    (SprintCode(address, height, coin) * 20033) % 131071

\* the evt built for one coin of one reward record
RewardEvent(chainID, chainName, curr, coin) ==
    [Source |-> "OsmosisRewardDistribution",
     Amount |-> coin.Amount,
     EventHash |-> EventHash(curr.Address, curr.EpochBlockHeight, coin),
     Denomination |-> GetDenomForBase(coin.Denom),
     Block |-> [Height |-> curr.EpochBlockHeight,
                Chain |-> [ChainID |-> chainID, Name |-> chainName]],
     EventAddress |-> curr.Address]

\* the candidates of one reward record, one per coin, in the order of the coins
CoinEvents(chainID, chainName, curr) ==
    [i \in DOMAIN curr.Coins |->
        RewardEvent(chainID, chainName, curr, curr.Coins[i])]

\* dbEvents before sorting: the candidates in input order
RECURSIVE RewardEvents(_, _, _, _)
RewardEvents(chainID, chainName, rewards, i) ==
    IF i > Len(rewards) THEN <<>>
    ELSE CoinEvents(chainID, chainName, rewards[i])
            \o RewardEvents(chainID, chainName, rewards, i + 1)

\* the position of s[i] after a stable sort by EventHash
RankByHash(s, i) ==
    1 + Cardinality({j \in DOMAIN s :
            \/ s[j].EventHash < s[i].EventHash
            \/ (s[j].EventHash = s[i].EventHash /\ j < i)})

\* sort.SliceStable by EventHash
SortByHash(s) ==
    CHOOSE r \in {[k \in DOMAIN s |-> s[CHOOSE i \in DOMAIN s : rank[i] = k]] :
                    rank \in {[i \in DOMAIN s |-> RankByHash(s, i)]}} : TRUE

\* eventExists: count of rows with this event_hash > 0
eventExists(d, event) ==
    \E k \in DOMAIN d.taxable_event :
        d.taxable_event[k].EventHash = event.EventHash

\* fault variant: the Block row of a reward created as an indexed block
GetOrCreateEventBlockIndexed(d, height, chainRowID) ==
    FirstOrCreate(d, "blocks",
        {k \in DOMAIN d.blocks : d.blocks[k].Height = height},
        [Height |-> height, TimeStamp |-> 0, Indexed |-> TRUE,
         BlockchainID |-> chainRowID])

\* Where(&event.Block).FirstOrCreate(&event.Block) with
\* Block{Height, Chain: Chain{...}}: the condition is on height alone; the
\* created row has the zero TimeStamp and Indexed = false
GetOrCreateEventBlock(d, height, chainRowID) ==
    FirstOrCreate(d, "blocks",
        {k \in DOMAIN d.blocks : d.blocks[k].Height = height},
        [Height |-> height, TimeStamp |-> 0, Indexed |-> FALSE,
         BlockchainID |-> chainRowID])

\* one iteration of the loop of createTaxableEvents
CreateTaxableEvent(d, event) ==
    Bind(GetOrCreateChain(d, event.Block.Chain.ChainID,
                          event.Block.Chain.Name), LAMBDA c :
        Bind(GetOrCreateEventBlock(c.db, event.Block.Height, c.id), LAMBDA b :
            Bind(SignerAddress(b.db, event.EventAddress), LAMBDA a :
                IF \/ event.Denomination.Base = ""
                   \/ event.Denomination.Symbol = ""
                THEN Fail(a.db, ErrNoDenom)
                ELSE Bind(Create(a.db, "taxable_event",
                                 [Source |-> event.Source,
                                  Amount |-> event.Amount,
                                  DenominationID |-> event.Denomination.ID,
                                  EventHash |-> event.EventHash,
                                  BlockID |-> b.id, AddressID |-> a.id]),
                          LAMBDA e : Ok(e.db)))))

\* the body of the transaction of createTaxableEvents
\* (the loop over events[lo..hi], written in halves: an error in the first
\* half returns before the second half runs)
RECURSIVE createTaxableEventsTx(_, _, _, _)
createTaxableEventsTx(d, events, lo, hi) ==
    IF lo > hi THEN Ok(d)
    ELSE IF lo = hi THEN CreateTaxableEvent(d, events[lo])
    ELSE Bind(createTaxableEventsTx(d, events, lo, (lo + hi) \div 2),
              LAMBDA s : createTaxableEventsTx(s.db, events,
                                               (lo + hi) \div 2 + 1, hi))

\* fault variant: the loop of createTaxableEvents outside a transaction
createTaxableEventsNoTx(d, events) ==
    createTaxableEventsTx(d, events, 1, Len(events))

\* the committed store and the error returned
createTaxableEvents(d, events) ==
    Committed(d, createTaxableEventsTx(d, events, 1, Len(events)))

\* dbEvents[i:batchEnd] of the batch loop (i counts from 0)
Batch(dbEvents, i) ==
    LET batchEnd == IF i + batchSize > Len(dbEvents)
                    THEN Len(dbEvents) - 1
                    ELSE i + batchSize
    IN  SubSeq(dbEvents, i + 1, batchEnd)

\* fault variant: the batch loop without the eventExists test
RECURSIVE InsertBatchesNoSkip(_, _, _)
InsertBatchesNoSkip(d, dbEvents, i) ==
    IF i >= Len(dbEvents) THEN Ok(d)
    ELSE Bind(createTaxableEvents(d, Batch(dbEvents, i)),
              LAMBDA s : InsertBatchesNoSkip(s.db, dbEvents, i + batchSize))

\* the batch loop: the committed store and the error returned
RECURSIVE InsertBatches(_, _, _)
InsertBatches(d, dbEvents, i) ==
    IF i >= Len(dbEvents) THEN Ok(d)
    ELSE IF eventExists(d, dbEvents[i + 1])
    THEN InsertBatches(d, dbEvents, i + batchSize)
    ELSE Bind(createTaxableEvents(d, Batch(dbEvents, i)),
              LAMBDA s : InsertBatches(s.db, dbEvents, i + batchSize))

\* the sorted candidate list of IndexOsmoRewards
\* fault variant: the candidates in the order of the input, never sorted
CandidatesUnsorted(chainID, chainName, rewards) ==
    RewardEvents(chainID, chainName, rewards, 1)

Candidates(chainID, chainName, rewards) ==
    SortByHash(RewardEvents(chainID, chainName, rewards, 1))

IndexOsmoRewards(d, chainID, chainName, rewards) ==
    InsertBatches(d, Candidates(chainID, chainName, rewards), 0)

----------------------------------------------------------------------------
(* The REST client: GetBlockByHeight, GetTxsByBlockHeight, GetLatestBlock *)

ErrTransport == "transport error"
ErrRead == "read error"
ErrDecode == "decode error"
ErrStatus == "Error getting response"

apiEndpoints(key) ==
    CASE key = "blocks_endpoint" ->
            "/cosmos/base/tendermint/v1beta1/blocks/%d"
      [] key = "latest_block_endpoint" -> "/blocks/latest"
      [] key = "txs_by_block_height_endpoint" ->
            "/cosmos/tx/v1beta1/txs?events=tx.height=%d&pagination.limit=100&order_by=ORDER_BY_UNSPECIFIED"

\* fmt.Sprintf of a path template and its argument
Sprintf(format, arg) == <<format, arg>>

\* the zero value of a response struct
ZeroResponse == [shape |-> "", value |-> 0]

\* bodies: JSON of a response shape, text that is not JSON, JSON whose types
\* do not fit the response struct, and the text of an error page
JSONBody(shape, value) == [kind |-> "json", shape |-> shape, value |-> value]
MalformedBody == [kind |-> "syntax", shape |-> "", value |-> 0]
MismatchedBody == [kind |-> "type", shape |-> "", value |-> 0]
ErrorPage == [kind |-> "text", shape |-> "", value |-> 0]

\* what http.Get answers: a transport error, or a status and a body that may
\* fail to be read
HTTPResponse(transportErr, code, status, body, readErr) ==
    [transportErr |-> transportErr, StatusCode |-> code, Status |-> status,
     Body |-> body, readErr |-> readErr]

Hosts == {"http://node-a", "http://node-b"}
ClientHeights == 1..2

Responses(shape) ==
    {HTTPResponse(TRUE, 0, "", ErrorPage, FALSE)}
        \cup {HTTPResponse(FALSE, 200, "200 OK", b, FALSE) :
                b \in {JSONBody(shape, 1), JSONBody(shape, 2),
                       MalformedBody, MismatchedBody}}
        \cup {HTTPResponse(FALSE, 200, "200 OK", JSONBody(shape, 1), TRUE)}
        \cup {HTTPResponse(FALSE, 404, "404 Not Found", b, FALSE) :
                b \in {ErrorPage, MalformedBody}}
        \cup {HTTPResponse(FALSE, 500, "500 Internal Server Error", b, FALSE) :
                b \in {ErrorPage, JSONBody(shape, 1)}}

\* json.Unmarshal(body, &result): the struct is filled from JSON of its
\* shape; other input leaves it zero and answers an error
Unmarshal(body, shape) ==
    IF body.kind = "json" /\ body.shape = shape
    THEN [result |-> [shape |-> shape, value |-> body.value], err |-> ""]
    ELSE [result |-> ZeroResponse, err |-> ErrDecode]

Answer(result, err, msg) == [result |-> result, err |-> err, msg |-> msg]

checkResponseErrorCode(requestEndpoint, resp) ==
    IF resp.StatusCode # 200
    THEN Answer(ZeroResponse, ErrStatus,
                <<requestEndpoint, resp.Status, resp.Body>>)
    ELSE Answer(ZeroResponse, "", <<>>)

GetBlockByHeight(host, height, resp) ==
    CHOOSE a \in
        {IF resp.transportErr THEN Answer(ZeroResponse, ErrTransport, <<>>)
         ELSE IF c.err # "" THEN c
         ELSE IF resp.readErr THEN Answer(ZeroResponse, ErrRead, <<>>)
         ELSE Answer(Unmarshal(resp.Body, "block").result, "", <<>>) :
            c \in {checkResponseErrorCode(
                      Sprintf(apiEndpoints("blocks_endpoint"), height),
                      resp)}} : TRUE

GetTxsByBlockHeight(host, height, resp) ==
    CHOOSE a \in
        {IF resp.transportErr THEN Answer(ZeroResponse, ErrTransport, <<>>)
         ELSE IF c.err # "" THEN c
         ELSE IF resp.readErr THEN Answer(ZeroResponse, ErrRead, <<>>)
         ELSE IF u.err # "" THEN Answer(u.result, u.err, <<>>)
         ELSE Answer(u.result, "", <<>>) :
            c \in {checkResponseErrorCode(
                      Sprintf(apiEndpoints("txs_by_block_height_endpoint"),
                              height), resp)},
            u \in {Unmarshal(resp.Body, "txs")}} : TRUE

GetLatestBlock(host, resp) ==
    CHOOSE a \in
        {IF resp.transportErr THEN Answer(ZeroResponse, ErrTransport, <<>>)
         ELSE IF c.err # "" THEN c
         ELSE IF resp.readErr THEN Answer(ZeroResponse, ErrRead, <<>>)
         ELSE IF u.err # "" THEN Answer(u.result, u.err, <<>>)
         ELSE Answer(u.result, "", <<>>) :
            c \in {checkResponseErrorCode(
                      apiEndpoints("latest_block_endpoint"), resp)},
            u \in {Unmarshal(resp.Body, "latest")}} : TRUE

----------------------------------------------------------------------------
(* The operations as actions on the committed store *)

Op(op, height, chain, time, input, err, ret, was) ==
    [op |-> op, height |-> height, chain |-> chain, time |-> time,
     input |-> input, err |-> err, ret |-> ret,
     \* what the call found in the store before it wrote
     was |-> was,
     \* the operation before it was the same call and returned nil
     again |-> /\ last.op = op /\ last.height = height /\ last.chain = chain
               /\ last.time = time /\ last.input = input /\ last.err = ""]

ChainRowIDs == 1..Len(db.chains)

NoOp ==
    [op |-> "start", height |-> 0, chain |-> 0, time |-> 0, input |-> 0,
     err |-> "", ret |-> <<>>, was |-> "", again |-> FALSE]

\* the Block row of (height, chain) as a block write finds it
BlockWas(d, h, c) ==
    LET found == {k \in DOMAIN d.blocks :
                    d.blocks[k].Height = h /\ d.blocks[k].BlockchainID = c}
    IN  IF found = {} THEN "none"
        ELSE IF d.blocks[FirstIn(found)].Indexed THEN "indexed"
        ELSE "anchor"

\* what the batch loop finds for the first batch of the candidates
BatchWas(d, dbEvents) ==
    IF dbEvents = <<>> THEN "empty"
    ELSE IF eventExists(d, dbEvents[1]) THEN "skip"
    ELSE "insert"

\* the row ID of a chain_id string, 0 when it has no row
ChainRowID(d, chainID) ==
    FirstIn({k \in DOMAIN d.chains : d.chains[k].ChainID = chainID})

\* the writers (a live-tip indexer and a backfill) and their sessions
NumWriters == 2
Writers == 1..NumWriters

Kinds == {"delete", "block", "signer", "tx", "payer", "fee", "msgtype", "msg",
          "sender", "receiver", "taxable", "fail"}

\* a session without a transaction
IdleWriter ==
    [status |-> "idle", height |-> 0, time |-> 0, chain |-> 0, blk |-> "",
     pc |-> 0, phase |-> "", reg |-> [k \in Kinds |-> 0],
     rows |-> {}, undo |-> {}, deleted |-> FALSE]

\* writers: the session of each writer; dead: rows of rolled-back
\* transactions that later rows keep from being reclaimed;
\* done: the <<height, chain id>> whose write has committed; begun: the
\* writers that have started a write; next: the height a run that walks its
\* range writes next (0: no such run, or not resumed yet)
NoSessions ==
    [writers |-> [w \in Writers |-> IdleWriter], dead |-> {}, done |-> {},
     begun |-> {}, next |-> 0]

Init ==
    /\ db = EmptyDB
    /\ last = NoOp
    /\ pending = {}
    /\ running = TRUE
    /\ sessions = NoSessions

\* the orchestrator resolves the chain it indexes
GetChain(ci) ==
    \E r \in {GetDBChainID(db, ChainIDs[ci], ChainName(ChainIDs[ci]))} :
        /\ running
        /\ db' = r.db
        /\ last' = Op("GetDBChainID", 0, r.id, 0, 0, r.err, <<>>, "")
        /\ UNCHANGED <<pending, running, sessions>>

\* IndexNewBlock(db, h, t, DecodedBlocks[bi], c); log.Fatal ends the process
\* with the transaction open, which the store rolls back
WriteBlock(h, t, bi, c) ==
    \E s \in {IndexNewBlockTx(db, h, t, DecodedBlocks[bi], c)} :
        /\ running
        /\ c \in ChainRowIDs
        /\ db' = IF s.err = ErrFatal THEN db ELSE Transaction(db, s)
        /\ last' = Op("IndexNewBlock", h, c, t, bi, s.err, <<>>,
                      BlockWas(db, h, c))
        /\ pending' = IF s.err = "" THEN pending \ {<<h, c>>} ELSE pending
        /\ running' = (s.err # ErrFatal)
        /\ UNCHANGED sessions

\* UpsertFailedBlock(db, h, chainID, chainName)
RecordFailedBlock(h, ci) ==
    \E s \in {Committed(db, UpsertFailedBlockTx(db, h, ChainIDs[ci],
                                                 ChainName(ChainIDs[ci])))} :
        /\ running
        /\ db' = s.db
        /\ last' = Op("UpsertFailedBlock", h, ChainRowID(s.db, ChainIDs[ci]),
                      0, 0, s.err, <<>>, "")
        /\ pending' = IF s.err = ""
                      THEN pending \cup {<<h, ChainRowID(s.db, ChainIDs[ci])>>}
                      ELSE pending
        /\ UNCHANGED <<running, sessions>>

\* IndexOsmoRewards(db, chainID, chainName, RewardLists(h)[ri]): the sorted
\* candidates, then the batch loop
IndexRewards(ri, h, ci) ==
    \E c \in {Candidates(ChainIDs[ci], ChainName(ChainIDs[ci]),
                         RewardLists(h)[ri])} :
      \E s \in {InsertBatches(db, c, 0)} :
        /\ running
        /\ db' = s.db
        /\ last' = Op("IndexOsmoRewards", h, ChainRowID(s.db, ChainIDs[ci]),
                      0, ri, s.err, <<>>, BatchWas(db, c))
        /\ UNCHANGED <<pending, running, sessions>>

\* IndexOsmoRewards on RewardLists(h)[ri] handed over in the order (a, b)
IndexShuffledRewards(ri, h, ci, a, b) ==
    \E c \in {Candidates(ChainIDs[ci], ChainName(ChainIDs[ci]),
                         ShuffledRewards(RewardLists(h)[ri], a, b))} :
      \E s \in {InsertBatches(db, c, 0)} :
        /\ running
        /\ db' = s.db
        /\ last' = Op("IndexOsmoRewards", h, ChainRowID(s.db, ChainIDs[ci]),
                      0, ri, s.err, <<a, b>>, BatchWas(db, c))
        /\ UNCHANGED <<pending, running, sessions>>

\* the symbol the store holds for a base, "" when it has no row
SymbolOf(d, base) ==
    IF \E k \in DOMAIN d.denoms : d.denoms[k].Base = base
    THEN d.denoms[FirstIn({k \in DOMAIN d.denoms :
                            d.denoms[k].Base = base})].Symbol
    ELSE ""

\* UpsertDenoms(db, denoms)
WriteDenoms(denoms) ==
    \E s \in {UpsertDenoms(db, denoms)} :
        /\ running
        /\ db' = s.db
        /\ last' = Op("UpsertDenoms", 0, 0, 0, denoms, s.err, <<>>,
                      SymbolOf(db, denoms[1].Denom.Base))
        /\ UNCHANGED <<pending, running, sessions>>

\* GetBlockByHeight(host, height) with the answer of the node
FetchBlock(host, height, resp) ==
    \E a \in {GetBlockByHeight(host, height, resp)} :
        /\ running
        /\ last' = Op("GetBlockByHeight", height, 0, 0,
                      [host |-> host, resp |-> resp], a.err, a, "")
        /\ UNCHANGED <<db, pending, running, sessions>>

\* GetTxsByBlockHeight(host, height) with the answer of the node
FetchTxs(host, height, resp) ==
    \E a \in {GetTxsByBlockHeight(host, height, resp)} :
        /\ running
        /\ last' = Op("GetTxsByBlockHeight", height, 0, 0,
                      [host |-> host, resp |-> resp], a.err, a, "")
        /\ UNCHANGED <<db, pending, running, sessions>>

\* GetLatestBlock(host) with the answer of the node
FetchLatest(host, resp) ==
    \E a \in {GetLatestBlock(host, resp)} :
        /\ running
        /\ last' = Op("GetLatestBlock", 0, 0, 0,
                      [host |-> host, resp |-> resp], a.err, a, "")
        /\ UNCHANGED <<db, pending, running, sessions>>

\* GetFailedBlocks(db, c)
ListFailedBlocks(c) ==
    /\ running
    /\ c \in ChainRowIDs
    /\ last' = Op("GetFailedBlocks", 0, c, 0, 0, "", GetFailedBlocks(db, c),
                  "")
    /\ UNCHANGED <<db, pending, running, sessions>>

\* GetFirstMissingBlockInRange(db, start, end, c)
FindFirstMissingHeight(start, end, c) ==
    /\ running
    /\ c \in ChainRowIDs
    /\ last' = Op("GetFirstMissingBlockInRange", start, c, end, 0, "",
                  <<GetFirstMissingBlockInRange(db, start, end, c)>>, "")
    /\ UNCHANGED <<db, pending, running, sessions>>

\* the operator starts the indexer again after it exited
Restart ==
    /\ ~running
    /\ running' = TRUE
    /\ last' = NoOp
    /\ UNCHANGED <<db, pending, sessions>>

\* the orchestrator records the height whose write has just returned an error
RecordAfterFailure(h, ci) ==
    /\ last.op = "IndexNewBlock"
    /\ last.err # ""
    /\ last.height = h
    /\ RecordFailedBlock(h, ci)

----------------------------------------------------------------------------
(* IndexNewBlock statement by statement: transactions of concurrent writers *)
(* under READ COMMITTED.  A statement of a transaction sees the committed   *)
(* rows and the rows of its own transaction.  FirstOrCreate is a SELECT     *)
(* and, when no row is found, an INSERT; an INSERT whose unique key is held *)
(* by a row of another open transaction waits for that transaction to end.  *)

ErrDeadlock == "deadlock detected"

\* a row no condition matches, in the place of a row a session does not see
Tombstone(tbl) ==
    CASE tbl = "blocks" -> [Height |-> -1, TimeStamp |-> -1,
                            Indexed |-> FALSE, BlockchainID |-> -1]
      [] tbl = "addresses" -> [Address |-> "#"]
      [] tbl = "txes" -> [Hash |-> "#", Code |-> -1, BlockID |-> -1,
                          SignerAddressID |-> -1]
      [] tbl = "fees" -> [TxID |-> -1, Amount |-> -1, DenominationID |-> -1,
                          PayerAddressID |-> -1]
      [] tbl = "message_types" -> [MessageType |-> "#"]
      [] tbl = "messages" -> [TxID |-> -1, MessageTypeID |-> -1,
                              MessageIndex |-> -1]
      [] tbl = "taxable_tx" ->
            [MessageID |-> -1, AmountSent |-> -1, AmountReceived |-> -1,
             DenominationSentID |-> -1, DenominationReceivedID |-> -1,
             SenderAddressID |-> -1, ReceiverAddressID |-> -1]

\* the rows writer w does not see: rolled back, or of another open
\* transaction (w = 0: the committed store)
Hidden(ss, w) ==
    ss.dead \cup UNION {ss.writers[v].rows : v \in Writers \ {w}}

\* the Block rows other open transactions have updated, as they were
Undone(ss, w) == UNION {ss.writers[v].undo : v \in Writers \ {w}}

\* the store as writer w sees it (w = 0: the committed store)
View(d, ss, w) ==
    [tbl \in DOMAIN d |->
        IF tbl = "failed_blocks"
        THEN IF w \in Writers /\ ss.writers[w].deleted
             THEN DeleteFailedBlock(d, ss.writers[w].height,
                                    ss.writers[w].chain).failed_blocks
             ELSE d.failed_blocks
        ELSE [k \in DOMAIN d[tbl] |->
                IF <<tbl, k>> \in Hidden(ss, w) THEN Tombstone(tbl)
                ELSE IF tbl = "blocks"
                        /\ \E u \in Undone(ss, w) : u[1] = k
                THEN (CHOOSE u \in Undone(ss, w) : u[1] = k)[2]
                ELSE d[tbl][k]]]

CommittedStore == View(db, sessions, 0)

\* the statements of IndexNewBlock in the order the loops issue them
Ins(kind, arg) == [kind |-> kind, arg |-> arg]

RECURSIVE Concat(_, _)
Concat(seqs, i) ==
    IF i > Len(seqs) THEN <<>> ELSE seqs[i] \o Concat(seqs, i + 1)

FeeProgram(fee) ==
    IF fee.PayerAddress = NoAddr THEN <<Ins("fail", ErrNoPayer)>>
    ELSE <<Ins("payer", fee.PayerAddress)>>
            \o (IF fee.Denomination.Base = "" \/ fee.Denomination.Symbol = ""
                THEN <<Ins("fail", ErrNoDenom)>>
                ELSE <<Ins("fee", fee)>>)

TaxableTxProgram(t) ==
    <<Ins("sender", t.SenderAddress), Ins("receiver", t.ReceiverAddress),
      Ins("taxable", t)>>

MessageProgram(m) ==
    IF m.MessageType = "" THEN <<Ins("fail", ErrFatal)>>
    ELSE <<Ins("msgtype", m.MessageType), Ins("msg", m.MessageIndex)>>
            \o Concat([i \in DOMAIN m.TaxableTxs |->
                            TaxableTxProgram(m.TaxableTxs[i])], 1)

TxProgram(tx) ==
    <<Ins("signer", tx.SignerAddress), Ins("tx", tx)>>
        \o Concat([i \in DOMAIN tx.Fees |-> FeeProgram(tx.Fees[i])], 1)
        \o Concat([i \in DOMAIN tx.Messages |->
                        MessageProgram(tx.Messages[i])], 1)

\* the statements up to the first return of an error
RECURSIVE UntilFail(_, _)
UntilFail(prog, i) ==
    IF i > Len(prog) THEN <<>>
    ELSE IF prog[i].kind = "fail" THEN <<prog[i]>>
    ELSE <<prog[i]>> \o UntilFail(prog, i + 1)

BlockProgram(txs) ==
    UntilFail(<<Ins("delete", 0), Ins("block", 0)>>
                \o Concat([i \in DOMAIN txs |-> TxProgram(txs[i])], 1), 1)

\* the statement ins of the transaction of session wr on the store d
Exec(d, ins, wr) ==
    CASE ins.kind = "delete" ->
            [db |-> DeleteFailedBlock(d, wr.height, wr.chain), id |-> 0,
             err |-> ""]
      [] ins.kind = "block" -> UpsertBlock(d, wr.height, wr.time, wr.chain)
      [] ins.kind \in {"signer", "sender", "receiver"} ->
            SignerAddress(d, ins.arg)
      [] ins.kind = "payer" -> GetOrCreateAddress(d, ins.arg)
      [] ins.kind = "tx" ->
            GetOrCreateTx(d, ins.arg.Hash, ins.arg.Code, wr.reg["block"],
                          wr.reg["signer"])
      [] ins.kind = "fee" ->
            GetOrCreateFee(d, wr.reg["tx"], ins.arg.Amount,
                           ins.arg.Denomination.ID, wr.reg["payer"])
      [] ins.kind = "msgtype" -> GetOrCreateMessageType(d, ins.arg)
      [] ins.kind = "msg" ->
            GetOrCreateMessage(d, wr.reg["tx"], wr.reg["msgtype"], ins.arg)
      [] ins.kind = "taxable" ->
            GetOrCreateTaxableTx(d, wr.reg["msg"], ins.arg, wr.reg["sender"],
                                 wr.reg["receiver"])
      [] ins.kind = "fail" -> [db |-> d, id |-> 0, err |-> ins.arg]

\* the table and the row of the INSERT of a statement
InsertTable(ins, wr) ==
    CHOOSE tbl \in DOMAIN EmptyDB : Exec(EmptyDB, ins, wr).db[tbl] # <<>>
InsertRow(ins, wr) == Exec(EmptyDB, ins, wr).db[InsertTable(ins, wr)][1]

CurrentIns(wr) == BlockProgram(WriterBlocks[wr.blk])[wr.pc]

\* fault variant: uniqueness checked by the application alone
InsertWaitsNever(d, ss, w, tbl, r) == FALSE

\* the INSERT of row r by writer w waits: another open transaction holds a
\* row with its unique key
InsertWaits(d, ss, w, tbl, r) ==
    /\ UniqueKey(tbl, r) # <<>>
    /\ \E v \in Writers \ {w} : \E p \in ss.writers[v].rows :
          /\ p[1] = tbl
          /\ UniqueKey(tbl, d[tbl][p[2]]) = UniqueKey(tbl, r)

\* the statement writer w is about to issue waits for another transaction
Waits(d, ss, w) ==
    /\ ss.writers[w].status = "open"
    /\ \/ /\ ss.writers[w].phase = "insert"
          /\ InsertWaits(d, ss, w,
                         InsertTable(CurrentIns(ss.writers[w]), ss.writers[w]),
                         InsertRow(CurrentIns(ss.writers[w]), ss.writers[w]))
       \/ /\ ss.writers[w].phase = "update"
          /\ \E u \in Undone(ss, w) : u[1] = ss.writers[w].reg["block"]

\* fault variant: the INSERT runs outside the transaction
OwnRowsNoTransaction(wr, tbl, id) == wr.rows

\* the rows the transaction of a session has inserted, with a new one
OwnRows(wr, tbl, id) == wr.rows \cup {<<tbl, id>>}

\* the session after its statement has answered id
Advance(wr, id) ==
    [wr EXCEPT !.reg[CurrentIns(wr).kind] = id, !.pc = @ + 1,
               !.phase = "select"]

AllDone(wr) ==
    wr.status = "open" /\ wr.pc > Len(BlockProgram(WriterBlocks[wr.blk]))

\* the rows left when the rows in dead at the end of their tables are
\* reclaimed
LastLive(d, dead, tbl) ==
    FirstIn({k \in 0..Len(d[tbl]) :
                \A j \in (k + 1)..Len(d[tbl]) : <<tbl, j>> \in dead})
Reclaimed(d, dead) ==
    [tbl \in DOMAIN d |-> SubSeq(d[tbl], 1, LastLive(d, dead, tbl))]
StillDead(d, dead) == {p \in dead : p[2] <= LastLive(d, dead, p[1])}

\* ROLLBACK of the transaction of writer w: its updates are undone, its rows
\* are gone
RolledBack(d, ss, w) ==
    [d EXCEPT !.blocks = [k \in DOMAIN @ |->
        IF \E u \in ss.writers[w].undo : u[1] = k
        THEN (CHOOSE u \in ss.writers[w].undo : u[1] = k)[2]
        ELSE @[k]]]

\* a writer starts IndexNewBlock(db, h, t, DecodedBlocks[bi], c)
Begin(w, h, t, bi, c) ==
    /\ running
    /\ c \in ChainRowIDs
    /\ sessions.writers[w].status = "idle"
    /\ bi \in DOMAIN WriterBlocks
    /\ sessions' = [sessions EXCEPT
            !.writers[w] =
                [IdleWriter EXCEPT !.status = "open", !.height = h,
                                   !.time = t, !.chain = c, !.blk = bi,
                                   !.pc = 1, !.phase = "select"],
            !.begun = @ \cup {w}]
    /\ UNCHANGED <<db, last, pending, running>>

\* the transaction of writer w ends with err; the store is d
EndWrite(w, d, err) ==
    /\ db' = Reclaimed(d, IF err = "" THEN sessions.dead
                          ELSE sessions.dead \cup sessions.writers[w].rows)
    /\ sessions' = [sessions EXCEPT
            !.writers[w] = IdleWriter,
            !.dead = StillDead(d, IF err = "" THEN @
                                  ELSE @ \cup sessions.writers[w].rows),
            !.done = IF err = ""
                     THEN @ \cup {<<sessions.writers[w].height,
                                     sessions.writers[w].chain>>}
                     ELSE @,
            !.next = IF @ = 0 THEN 0 ELSE @ + 1]
    /\ last' = Op("IndexNewBlock", sessions.writers[w].height,
                  sessions.writers[w].chain, sessions.writers[w].time,
                  sessions.writers[w].blk, err, <<w>>,
                  BlockWas(CommittedStore, sessions.writers[w].height,
                           sessions.writers[w].chain))
    /\ pending' = IF err = ""
                  THEN pending \ {<<sessions.writers[w].height,
                                    sessions.writers[w].chain>>}
                  ELSE pending

\* the SELECT of the statement of writer w, or a statement that is no
\* FirstOrCreate
Select(w) ==
    \E wr \in {sessions.writers[w]} :
      /\ running /\ wr.status = "open" /\ ~AllDone(wr) /\ wr.phase = "select"
      /\ \E ins \in {CurrentIns(wr)}, v \in {View(db, sessions, w)} :
          \E s \in {Exec(v, ins, wr)} :
            IF ins.kind = "fail"
            THEN /\ EndWrite(w, RolledBack(db, sessions, w), s.err)
                 /\ running' = (s.err # ErrFatal)
            ELSE /\ sessions' = [sessions EXCEPT !.writers[w] =
                        IF ins.kind = "delete"
                        THEN [Advance(wr, 0) EXCEPT !.deleted = TRUE]
                        ELSE IF s.err = "" /\ s.db = v
                             THEN IF ins.kind = "block"
                                  THEN [wr EXCEPT !.phase = "update",
                                                  !.reg["block"] = s.id]
                                  ELSE Advance(wr, s.id)
                        ELSE IF /\ s.err = "" /\ ins.kind = "block"
                                /\ Len(s.db.blocks) = Len(v.blocks)
                             THEN [wr EXCEPT !.phase = "update",
                                             !.reg["block"] = s.id]
                        ELSE [wr EXCEPT !.phase = "insert"]]
                 /\ UNCHANGED <<db, last, pending, running>>

\* the INSERT of the statement of writer w
Insert(w) ==
    \E wr \in {sessions.writers[w]} :
      /\ running /\ wr.status = "open" /\ wr.phase = "insert"
      /\ \E ins \in {CurrentIns(wr)} :
         \E tbl \in {InsertTable(ins, wr)}, r \in {InsertRow(ins, wr)} :
           /\ ~InsertWaits(db, sessions, w, tbl, r)
           /\ \E c \in {Create(View(db, sessions, w), tbl, r)} :
                IF c.err # ""
                THEN /\ EndWrite(w, RolledBack(db, sessions, w), c.err)
                     /\ UNCHANGED running
                ELSE /\ db' = [db EXCEPT ![tbl] = Append(@, r)]
                     /\ sessions' = [sessions EXCEPT !.writers[w] =
                            [Advance(wr, c.id) EXCEPT
                                !.rows = OwnRows(wr, tbl, c.id)]]
                     /\ UNCHANGED <<last, pending, running>>

\* the UPDATE of the Block row found (Assign)
Update(w) ==
    \E wr \in {sessions.writers[w]} :
      /\ running /\ wr.status = "open" /\ wr.phase = "update"
      /\ ~Waits(db, sessions, w)
      /\ \E s \in {Exec(View(db, sessions, w), CurrentIns(wr), wr)} :
           /\ db' = [db EXCEPT !.blocks[s.id] = s.db.blocks[s.id]]
           /\ sessions' = [sessions EXCEPT !.writers[w] =
                  [Advance(wr, s.id) EXCEPT !.undo =
                      IF \E u \in @ : u[1] = s.id THEN @
                      ELSE @ \cup {<<s.id, db.blocks[s.id]>>}]]
           /\ UNCHANGED <<last, pending, running>>

\* COMMIT
Commit(w) ==
    /\ running /\ AllDone(sessions.writers[w])
    /\ EndWrite(w, [db EXCEPT !.failed_blocks =
                        View(db, sessions, w).failed_blocks], "")
    /\ UNCHANGED running

\* two transactions wait for each other: the store ends one of them
Deadlock(w) ==
    /\ running
    /\ Waits(db, sessions, w)
    /\ \E v \in Writers \ {w} : Waits(db, sessions, v)
    /\ EndWrite(w, RolledBack(db, sessions, w), ErrDeadlock)
    /\ UNCHANGED running

\* no transaction is open and no row of a rolled-back one is left
Quiet ==
    /\ \A w \in Writers : sessions.writers[w].status = "idle"
    /\ sessions.dead = {}

\* the range of heights of a run
RunStart == 1
RunEnd == CrashMaxHeight

\* a run asks for the first missing height of its range and goes on there
Resume(c) ==
    /\ running /\ Quiet
    /\ c \in ChainRowIDs
    /\ sessions.next = 0
    /\ \E r \in {GetFirstMissingBlockInRange(db, RunStart, RunEnd, c)} :
         /\ last' = Op("GetFirstMissingBlockInRange", RunStart, c, RunEnd, 0,
                       "", <<r>>, "")
         /\ sessions' = [sessions EXCEPT !.next = r]
    /\ UNCHANGED <<db, pending, running>>

\* the run writes the height it is at
BeginNext(w, t, bi, c) ==
    /\ sessions.next \in RunStart..RunEnd
    /\ Begin(w, sessions.next, t, bi, c)

\* the store after the process has gone: the open transactions are rolled
\* back
CrashedStore(d, ss) ==
    Reclaimed(
        [d EXCEPT !.blocks = [k \in DOMAIN @ |->
            IF \E u \in Undone(ss, 0) : u[1] = k
            THEN (CHOOSE u \in Undone(ss, 0) : u[1] = k)[2]
            ELSE @[k]]],
        Hidden(ss, 0))

\* the process crashes, at any statement of a write or between writes
Crash ==
    /\ running
    /\ db' = CrashedStore(db, sessions)
    /\ sessions' = [NoSessions EXCEPT
            !.done = sessions.done,
            !.dead = StillDead(db, Hidden(sessions, 0))]
    /\ last' = Op("crash", sessions.next, 0, 0, 0, "",
                  <<Cardinality(Hidden(sessions, 0))>>,
                  IF \E w \in Writers : sessions.writers[w].status = "open"
                  THEN "open" ELSE "idle")
    /\ running' = FALSE
    /\ UNCHANGED pending

\* the orchestrator of one chain: block writes of every decoded input, the
\* failures it records, restarts
NextBlock ==
    \/ GetChain(1)
    \/ \E h \in Heights, bi \in DOMAIN DecodedBlocks : WriteBlock(h, 1, bi, 1)
    \/ \E h \in Heights : RecordAfterFailure(h, 1)
    \/ Restart

SpecBlock == Init /\ [][NextBlock]_vars

\* the retry worklist of two chains
NextWorklist ==
    \/ \E ci \in DOMAIN ChainIDs : GetChain(ci)
    \/ \E h \in Heights, bi \in {"empty", "nopayer"} :
          WriteBlock(h, 1, bi, 1)
    \/ \E h \in Heights, ci \in DOMAIN ChainIDs : RecordFailedBlock(h, ci)
    \/ \E c \in DOMAIN ChainIDs : ListFailedBlocks(c)

SpecWorklist == Init /\ [][NextWorklist]_vars

\* reward ingestion next to block indexing on two chains
NextRewards ==
    \/ \E ci \in DOMAIN ChainIDs : GetChain(ci)
    \/ \E h \in 1..RewardMaxHeight, t \in Times :
          WriteBlock(h, t, "empty", 1)
    \/ \E h \in 1..RewardMaxHeight : RecordFailedBlock(h, 1)
    \/ \E ri \in ShortLists, h \in 1..RewardMaxHeight,
          ci \in DOMAIN ChainIDs : IndexRewards(ri, h, ci)

SpecRewards == Init /\ [][NextRewards]_vars

\* reward ingestion of lists of one, two and three batches, once and again
NextBatches ==
    \/ GetChain(1)
    \/ \E ri \in DOMAIN RewardLists(1) : IndexRewards(ri, 1, 1)

SpecBatches == Init /\ [][NextBatches]_vars

\* reward ingestion of one list in every order of its records (the list of
\* three records) or of its coins (the lists of one record): the short lists
\* on every store, a list of two batches on a store that holds no reward event
NextOrder ==
    \/ GetChain(1)
    \/ \E a \in ShortOrders : IndexShuffledRewards(2, 1, 1, a, 1)
    \/ \E ri \in {1, 5}, b \in ShortOrders :
          IndexShuffledRewards(ri, 1, 1, 1, b)
    \/ \E b \in LongOrders :
          db.taxable_event = <<>> /\ IndexShuffledRewards(3, 1, 1, 1, b)

SpecOrder == Init /\ [][NextOrder]_vars

\* block writes of the first chain statement by statement, and between them
\* failed heights recorded for either chain and rewards ingested for the
\* second
NextIntegrity ==
    \/ \E ci \in DOMAIN ChainIDs : GetChain(ci)
    \/ \E h \in 1..SideMaxHeight, bi \in {"good", "nopayer"} :
          Begin(1, h, 1, bi, 1)
    \/ Select(1)
    \/ Insert(1)
    \/ Update(1)
    \/ Commit(1)
    \/ \E ci \in DOMAIN ChainIDs : Quiet /\ RecordFailedBlock(1, ci)
    \/ Quiet /\ IndexRewards(1, 1, 2)

SpecIntegrity == Init /\ [][NextIntegrity]_vars

\* two writers of one chain, each writing one height once, and the
\* orchestrator that records the height of a write that has just failed
NextRetry ==
    \/ GetChain(1)
    \/ \E w \in Writers \ sessions.begun, h \in 1..ConcurrentMaxHeight,
          bi \in {"good", "nopayer", "back"} : Begin(w, h, h, bi, 1)
    \/ \E w \in Writers : Select(w)
    \/ \E w \in Writers : Insert(w)
    \/ \E w \in Writers : Update(w)
    \/ \E w \in Writers : Commit(w)
    \/ \E w \in Writers : Deadlock(w)
    \/ \E h \in 1..ConcurrentMaxHeight : RecordAfterFailure(h, 1)

SpecRetry == Init /\ [][NextRetry]_vars

\* block writes that meet rows of an earlier write: the same hash decoded the
\* same way and another way, at the same and at another height, next to
\* failed heights recorded and rewards ingested
NextRewrite ==
    \/ GetChain(1)
    \/ \E h \in 1..SideMaxHeight, t \in Times,
          bi \in {"good", "changed", "multi", "nopayer"} :
            WriteBlock(h, t, bi, 1)
    \/ \E h \in 1..SideMaxHeight : RecordFailedBlock(h, 1)
    \/ \E ri \in ShortLists : IndexRewards(ri, 1, 1)

SpecRewrite == Init /\ [][NextRewrite]_vars

\* rewards ingested before and after the blocks of their heights are written,
\* on two chains, and the gap queries of a run
NextAnchor ==
    \/ \E ci \in DOMAIN ChainIDs : GetChain(ci)
    \/ \E h \in 1..SideMaxHeight, c \in DOMAIN ChainIDs :
          WriteBlock(h, 1, "empty", c)
    \/ \E h \in 1..SideMaxHeight, ci \in DOMAIN ChainIDs :
          IndexRewards(1, h, ci)
    \/ \E start \in 1..SideMaxHeight, end \in 1..SideMaxHeight,
          c \in DOMAIN ChainIDs : FindFirstMissingHeight(start, end, c)

SpecAnchor == Init /\ [][NextAnchor]_vars

\* the denomination registry: calls of UpsertDenoms, one after another
NextDenoms == \E denoms \in DenomLists : WriteDenoms(denoms)

SpecDenoms == Init /\ [][NextDenoms]_vars

\* the REST client: requests, one after another, each with an answer of the
\* node
NextClient ==
    \/ \E host \in Hosts, height \in ClientHeights,
          resp \in Responses("block") : FetchBlock(host, height, resp)
    \/ \E host \in Hosts, height \in ClientHeights,
          resp \in Responses("txs") : FetchTxs(host, height, resp)
    \/ \E host \in Hosts, resp \in Responses("latest") :
          FetchLatest(host, resp)

SpecClient == Init /\ [][NextClient]_vars

\* two writers of one chain, their transactions interleaved statement by
\* statement
NextWriters ==
    \/ GetChain(1)
    \/ \E w \in Writers \ sessions.begun, h \in 1..ConcurrentMaxHeight,
          bi \in {"good", "back"} : Begin(w, h, h, bi, 1)
    \/ \E w \in Writers : Select(w)
    \/ \E w \in Writers : Insert(w)
    \/ \E w \in Writers : Update(w)
    \/ \E w \in Writers : Commit(w)
    \/ \E w \in Writers : Deadlock(w)

SpecWriters == Init /\ [][NextWriters]_vars

\* one run over the heights RunStart..RunEnd that can crash at any statement
\* and is started again
NextCrash ==
    \/ GetChain(1)
    \/ Resume(1)
    \/ \E t \in Times, bi \in {"good", "nopayer"} : BeginNext(1, t, bi, 1)
    \/ Select(1)
    \/ Insert(1)
    \/ Update(1)
    \/ Commit(1)
    \/ Crash
    \/ Restart

SpecCrash == Init /\ [][NextCrash]_vars

\* the store after the chains were resolved and, height by height, the first
\* chain's block was indexed ("indexed"), created by reward ingestion as an
\* anchor ("anchor") or left out ("none"), then the second chain's block was
\* indexed or left out
FirstChainBlock(d, kind, h) ==
    IF kind = "indexed" THEN Transaction(d, IndexNewBlockTx(d, h, 1, <<>>, 1))
    ELSE IF kind = "anchor"
    THEN IndexOsmoRewards(d, ChainIDs[1], ChainName(ChainIDs[1]),
                          RewardLists(h)[1]).db
    ELSE d

SecondChainBlock(d, kind, h) ==
    IF kind = "indexed" THEN Transaction(d, IndexNewBlockTx(d, h, 1, <<>>, 2))
    ELSE d

RECURSIVE GapStore(_, _, _, _)
GapStore(d, first, second, h) ==
    IF h > GapMaxHeight THEN d
    ELSE GapStore(SecondChainBlock(FirstChainBlock(d, first[h], h),
                                   IF h <= SideMaxHeight THEN second[h]
                                   ELSE "none", h),
                  first, second, h + 1)

TwoChains ==
    GetDBChainID(GetDBChainID(EmptyDB, ChainIDs[1], ChainName(ChainIDs[1])).db,
                 ChainIDs[2], ChainName(ChainIDs[2])).db

\* gap detection: every store of blocks of two chains and reward anchors
InitGap ==
    /\ \E first \in [1..GapMaxHeight -> {"none", "indexed", "anchor"}],
          second \in [1..SideMaxHeight -> {"none", "indexed"}] :
          db = GapStore(TwoChains, first, second, 1)
    /\ last = NoOp
    /\ pending = {}
    /\ running = TRUE
    /\ sessions = NoSessions

\* a run asks once, before it indexes, where to start
NextGap ==
    \E start \in 1..GapMaxHeight, end \in 1..GapMaxHeight,
       c \in DOMAIN ChainIDs :
          last.op = "start" /\ FindFirstMissingHeight(start, end, c)

SpecGap == InitGap /\ [][NextGap]_vars

----------------------------------------------------------------------------
(* Gap detection: C3, C4, C5 (under SpecGap) *)

IsGapQuery == last.op = "GetFirstMissingBlockInRange"
rangeStart == last.height
rangeEnd == last.time
gapResult == last.ret[1]

\* chain c has a Block row of height h with indexed = true
IsIndexed(h, c) ==
    \E k \in DOMAIN db.blocks :
        /\ db.blocks[k].Height = h
        /\ db.blocks[k].BlockchainID = c
        /\ db.blocks[k].Indexed = TRUE

\* the highest indexed height of chain c, 0 when it has none
Highest(c) ==
    IF \E h \in 1..(GapMaxHeight + 1) : IsIndexed(h, c)
    THEN CHOOSE h \in 1..(GapMaxHeight + 1) :
            IsIndexed(h, c) /\ \A g \in (h + 1)..(GapMaxHeight + 1) : ~IsIndexed(g, c)
    ELSE 0

\* the bound of the search of the last query
effectiveEnd == EffectiveEnd(db, rangeStart, rangeEnd, last.chain)

\* C3: whenever [rangeStart, effectiveEnd] holds a height without an
\* indexed=true row of the chain, the query returns the smallest such height:
\* it lies in the range, is not indexed, and every height of the range below it
\* is indexed; rows of other chains and indexed=false rows do not count.
C3_FirstMissing ==
    IsGapQuery =>
        ((\E h \in rangeStart..effectiveEnd : ~IsIndexed(h, last.chain)) =>
            /\ gapResult \in rangeStart..effectiveEnd
            /\ ~IsIndexed(gapResult, last.chain)
            /\ \A g \in rangeStart..(gapResult - 1) : IsIndexed(g, last.chain))

\* indexed {1,2,4,5}, range [1,5] returns 3, with an indexed=false row of the
\* chain at height 3 and indexed rows of the other chain
C3_Witness ==
    /\ IsGapQuery
    /\ rangeStart = 1 /\ rangeEnd = 5 /\ last.chain = 1
    /\ {h \in 1..GapMaxHeight : IsIndexed(h, 1)} = {1, 2, 4, 5}
    /\ \E k \in DOMAIN db.blocks :
          /\ db.blocks[k].Height = 3 /\ db.blocks[k].BlockchainID = 1
          /\ ~db.blocks[k].Indexed
    /\ IsIndexed(2, 2)
    /\ gapResult = 3

\* C4 as claimed: whenever the highest indexed height is >= rangeStart the
\* bound of the search is highest+1, and the query returns highest+1 when
\* every height of [rangeStart, rangeEnd] is indexed.
C4_AsClaimed ==
    IsGapQuery =>
        (Highest(last.chain) >= rangeStart =>
            /\ effectiveEnd = Highest(last.chain) + 1
            /\ (\A h \in rangeStart..rangeEnd : IsIndexed(h, last.chain)) =>
                    gapResult = Highest(last.chain) + 1)

\* C4 amended: the bound of the search is highest+1 exactly when the highest
\* indexed height is greater than rangeStart, and rangeEnd otherwise (also
\* when highest = rangeStart); with highest > rangeStart and every height of
\* [rangeStart, highest] indexed the query returns highest+1.
C4_ExtendedEnd ==
    IsGapQuery =>
        /\ Highest(last.chain) > rangeStart =>
            /\ effectiveEnd = Highest(last.chain) + 1
            /\ (\A h \in rangeStart..Highest(last.chain) :
                    IsIndexed(h, last.chain)) =>
                        gapResult = Highest(last.chain) + 1
        /\ Highest(last.chain) <= rangeStart => effectiveEnd = rangeEnd
        /\ (Highest(last.chain) = rangeStart /\ rangeEnd = rangeStart) =>
                gapResult = rangeStart

\* indexed {1..5}, range [1,5] returns 6
C4_Witness ==
    /\ IsGapQuery
    /\ rangeStart = 1 /\ rangeEnd = 5 /\ last.chain = 1
    /\ \A h \in 1..5 : IsIndexed(h, 1)
    /\ gapResult = 6

\* C5: the query returns rangeStart when [rangeStart, effectiveEnd] holds no
\* height without an indexed=true row (also when the range is empty); in every
\* other case the height returned is not indexed, so an indexed result occurs
\* in the no-gap case only.
C5_NoGapReturnsStart ==
    IsGapQuery =>
        /\ (\A h \in rangeStart..effectiveEnd : IsIndexed(h, last.chain)) =>
                gapResult = rangeStart
        /\ IsIndexed(gapResult, last.chain) =>
                /\ gapResult = rangeStart
                /\ \A h \in rangeStart..effectiveEnd : IsIndexed(h, last.chain)

\* an empty range (rangeStart above the bound) returns the indexed rangeStart
C5_Witness ==
    /\ IsGapQuery
    /\ rangeStart > effectiveEnd
    /\ IsIndexed(rangeStart, last.chain)
    /\ gapResult = rangeStart

----------------------------------------------------------------------------
(* Block writes: C1, C2, C9 (under SpecBlock) *)

IsWrite(l) == l.op = "IndexNewBlock"

\* the tables a block write fills
BlockGraph(d) ==
    <<d.blocks, d.txes, d.addresses, d.fees, d.messages, d.taxable_tx>>

\* C1: a block write that succeeded and is called again with the identical
\* input leaves the Block, Tx, Address, Fee, Message and TaxableTransaction
\* tables with exactly the rows they had after the first call.
C1_Idempotent ==
    [][(IsWrite(last') /\ last'.again /\ last'.err = "") =>
            BlockGraph(db') = BlockGraph(db)]_vars

\* the second write of the two-transaction block has returned nil
C1_Witness ==
    /\ IsWrite(last) /\ last.again /\ last.err = ""
    /\ last.input = "multi"
    /\ Len(db.txes) = 2 /\ Len(db.taxable_tx) = 2 /\ Len(db.messages) = 3

\* C2: a block write whose input has a fee with empty payer or unresolved
\* denomination (after valid transactions, fees and addresses) returns an error
\* and leaves the committed store, FailedBlock rows included, as it was.
C2_AllOrNothing ==
    [][(IsWrite(last') /\ HasBadFee(DecodedBlocks[last'.input])) =>
            /\ last'.err \in {ErrNoPayer, ErrNoDenom}
            /\ db' = db]_vars

\* a write with a payerless fee has failed on a store that holds rows of
\* earlier writes and the FailedBlock row of its height
C2_Witness ==
    /\ IsWrite(last) /\ last.input = "nopayer" /\ last.err = ErrNoPayer
    /\ Len(db.txes) > 0
    /\ \E k \in DOMAIN db.failed_blocks :
          /\ db.failed_blocks[k].Height = last.height
          /\ db.failed_blocks[k].BlockchainID = last.chain

\* C9: a block write whose input has a message with empty message type
\* returns a data-integrity error and the process keeps running.
C9_EmptyTypeReturnsError ==
    (IsWrite(last) /\ HasEmptyType(DecodedBlocks[last.input])) =>
        /\ last.err \notin {"", ErrFatal}
        /\ running

----------------------------------------------------------------------------
(* Block rows and reward events: C6, C10 (under SpecRewards) *)

BlockKey(r) == <<r.Height, r.BlockchainID>>

\* C6: there is at most one Block row per (height, chain), and after a
\* successful block write the row of its (height, chain) has indexed = true
\* and the timestamp supplied, whether or not the row existed before.
C6_OneBlockRow ==
    /\ \A i, j \in DOMAIN db.blocks :
          BlockKey(db.blocks[i]) = BlockKey(db.blocks[j]) => i = j
    /\ (IsWrite(last) /\ last.err = "") =>
          \E k \in DOMAIN db.blocks :
              /\ BlockKey(db.blocks[k]) = <<last.height, last.chain>>
              /\ db.blocks[k].Indexed = TRUE
              /\ db.blocks[k].TimeStamp = last.time

\* a block write has succeeded on a row that reward ingestion had created
C6_Witness ==
    /\ IsWrite(last) /\ last.err = "" /\ last.was = "anchor"
    /\ \E k \in DOMAIN db.blocks, e \in DOMAIN db.taxable_event :
          /\ BlockKey(db.blocks[k]) = <<last.height, last.chain>>
          /\ db.taxable_event[e].BlockID = k
          /\ db.blocks[k].Indexed

IsRewards == last.op = "IndexOsmoRewards"

\* the first batch of the last reward ingestion (hashes and batches do not
\* depend on the chain)
LastBatch ==
    Batch(Candidates(ChainIDs[1], ChainName(ChainIDs[1]),
                     RewardLists(last.height)[last.input]), 0)

RowsWithHash(hash) ==
    {k \in DOMAIN db.taxable_event : db.taxable_event[k].EventHash = hash}

\* C10: the store holds at most one TaxableEvent row per event_hash, and a
\* batch that is inserted with two candidates of the same hash ends with an
\* error of the unique constraint or with exactly one row of that hash.
C10_UniqueEventHash ==
    /\ \A i, j \in DOMAIN db.taxable_event :
          db.taxable_event[i].EventHash = db.taxable_event[j].EventHash => i = j
    /\ (IsRewards /\ last.was = "insert") =>
          \A i, j \in DOMAIN LastBatch :
              (i # j /\ LastBatch[i].EventHash = LastBatch[j].EventHash) =>
                  \/ last.err = ErrUnique
                  \/ Cardinality(RowsWithHash(LastBatch[i].EventHash)) = 1

\* a batch with the same candidate twice was rejected by the unique constraint
C10_Witness ==
    /\ IsRewards /\ last.was = "insert" /\ last.err = ErrUnique
    /\ \E i, j \in DOMAIN LastBatch :
          /\ i # j
          /\ LastBatch[i].EventHash = LastBatch[j].EventHash
          /\ LastBatch[i].EventAddress = LastBatch[j].EventAddress
          /\ RowsWithHash(LastBatch[i].EventHash) = {}

----------------------------------------------------------------------------
(* The retry worklist: C7, C8 (under SpecWorklist) *)

RECURSIVE StrictlyAscending(_)
StrictlyAscending(s) ==
    Len(s) < 2 \/ (s[1] < s[2] /\ StrictlyAscending(Tail(s)))

\* C7: the list of failed blocks of a chain holds, in strictly ascending
\* order, exactly the heights of the chain whose latest event among recorded
\* failure and successful block write is a recorded failure.
C7_ListIsPending ==
    last.op = "GetFailedBlocks" =>
        /\ StrictlyAscending(last.ret)
        /\ {last.ret[i] : i \in DOMAIN last.ret}
              = {p[1] : p \in {q \in pending : q[2] = last.chain}}

\* C8: recording a failed block succeeds and leaves exactly one Chain row of
\* the chain_id and exactly one FailedBlock row of the (height, chain).
C8_OneFailedRow ==
    last.op = "UpsertFailedBlock" =>
        /\ last.err = ""
        /\ last.chain # 0
        /\ Cardinality({k \in DOMAIN db.chains :
              db.chains[k].ChainID = db.chains[last.chain].ChainID}) = 1
        /\ Cardinality({k \in DOMAIN db.failed_blocks :
              /\ db.failed_blocks[k].Height = last.height
              /\ db.failed_blocks[k].BlockchainID = last.chain}) = 1

----------------------------------------------------------------------------
(* Batches of reward events: C11, C12, C13 (under SpecBatches) *)

IsRewardsOp(l) == l.op = "IndexOsmoRewards"

\* the sorted candidates of a reward ingestion
CandidatesOf(l) ==
    Candidates(ChainIDs[1], ChainName(ChainIDs[1]),
               RewardLists(l.height)[l.input])

\* the event hashes a store holds
Hashes(d) == {d.taxable_event[k].EventHash : k \in DOMAIN d.taxable_event}

HashesOf(events) == {events[k].EventHash : k \in DOMAIN events}

\* the values of i in the batch loop over c
BatchStarts(c) == {i \in 0..(Len(c) - 1) : i % batchSize = 0}

\* C11: a reward ingestion that returns nil on a store that held none of the
\* hashes of its candidates, all distinct, has stored every candidate once.
C11_EveryCandidateStored ==
    [][IsRewardsOp(last') =>
        \A c \in {CandidatesOf(last')} :
            (/\ last'.err = ""
             /\ Cardinality(HashesOf(c)) = Len(c)
             /\ HashesOf(c) \cap Hashes(db) = {}) =>
                /\ HashesOf(c) \subseteq Hashes(db')
                /\ Len(db'.taxable_event) = Len(db.taxable_event) + Len(c)]_vars

\* the rows of table tbl that d2 holds and d1 does not
NewRows(d1, d2, tbl) == (Len(d1[tbl]) + 1)..Len(d2[tbl])

\* every Chain, Block and Address row that d2 has and d1 has not is the
\* parent of a row of d2
NoOrphan(d1, d2) ==
    /\ \A a \in NewRows(d1, d2, "addresses") :
          \E e \in DOMAIN d2.taxable_event : d2.taxable_event[e].AddressID = a
    /\ \A b \in NewRows(d1, d2, "blocks") :
          \E e \in DOMAIN d2.taxable_event : d2.taxable_event[e].BlockID = b
    /\ \A ch \in NewRows(d1, d2, "chains") :
          \E b \in DOMAIN d2.blocks : d2.blocks[b].BlockchainID = ch

\* C12: a reward ingestion that returns an error has a batch k of which no
\* row persists; no row of a later batch is stored; every batch before k is
\* stored whole or was skipped; the rows stored before are intact; the error
\* is returned and no Chain, Block or Address row is left without the event
\* it was created for.
C12_BatchAtomic ==
    [][(IsRewardsOp(last') /\ last'.err # "") =>
        \A c \in {CandidatesOf(last')}, old \in {Hashes(db)},
           new \in {Hashes(db') \ Hashes(db)} :
            /\ \E k \in BatchStarts(c) :
                  /\ HashesOf(Batch(c, k)) \cap new = {}
                  /\ \A j \in BatchStarts(c) :
                        /\ j > k => HashesOf(Batch(c, j)) \cap new = {}
                        /\ j < k =>
                              \/ HashesOf(Batch(c, j)) \subseteq new
                              \/ /\ c[j + 1].EventHash \in old
                                 /\ HashesOf(Batch(c, j)) \cap new = {}
            /\ SubSeq(db'.taxable_event, 1, Len(db.taxable_event))
                  = db.taxable_event
            /\ NoOrphan(db, db')]_vars

\* the second batch of three has failed: the first batch is stored, nothing
\* of the second and the third is
C12_Witness ==
    /\ IsRewards /\ last.input \in LongLists /\ last.err = ErrUnique
    /\ last.was = "insert"
    /\ \A c \in {CandidatesOf(last)} :
          /\ Cardinality(BatchStarts(c)) = 3
          /\ Hashes(db) = HashesOf(Batch(c, 0))

\* C13: a batch whose first event's hash is stored writes nothing and does not
\* fail the run, whichever of its other events are stored; a batch whose first
\* hash is absent is inserted whole or not at all, and whole when the run
\* returns nil; the same ingestion again after a run that returned nil writes
\* nothing and returns nil.
C13_SkipOnFirstHash ==
    [][IsRewardsOp(last') =>
        \A c \in {CandidatesOf(last')}, old \in {Hashes(db)},
           new \in {Hashes(db') \ Hashes(db)} :
            /\ \A k \in BatchStarts(c) :
                  IF c[k + 1].EventHash \in old
                  THEN HashesOf(Batch(c, k)) \cap new = {}
                  ELSE /\ \/ HashesOf(Batch(c, k)) \subseteq new
                          \/ HashesOf(Batch(c, k)) \cap new = {}
                       /\ last'.err = "" => HashesOf(Batch(c, k)) \subseteq new
            /\ (\A k \in BatchStarts(c) : c[k + 1].EventHash \in old) =>
                  (last'.err = "" /\ db' = db)
            /\ last'.again => (last'.err = "" /\ db' = db)]_vars

\* a batch was skipped on its first hash while other events of it are not
\* stored
C13_Witness ==
    /\ IsRewards /\ last.was = "skip" /\ last.err = ""
    /\ \A c \in {CandidatesOf(last)} :
          /\ Len(c) > batchSize
          /\ c[1].EventHash \in Hashes(db)
          /\ ~(HashesOf(Batch(c, 0)) \subseteq Hashes(db))

(* The denomination registry: C14 (under SpecDenoms) *)

IsDenomsOp(l) == l.op = "UpsertDenoms"

\* the values of one field over the rows of a table
Column(rows, f) == {rows[k][f] : k \in DOMAIN rows}

\* the (entry, unit) positions of a call
UnitPositions(in) ==
    UNION {{<<i, j>> : j \in DOMAIN in[i].DenomUnits} : i \in DOMAIN in}

\* C14: after UpsertDenoms returns nil there is one Denom row per base, and
\* the row of every base of the call carries the symbol and name of the call's
\* last entry for that base; a base that had a row has no second one; a unit
\* whose name had a row keeps that row with the exponent of the call; an alias
\* row that existed is unchanged; a call that returns an error leaves the
\* store as it was.
C14_UpsertDenoms ==
    [][IsDenomsOp(last') =>
        \A in \in {last'.input} :
            IF last'.err # "" THEN db' = db
            ELSE /\ Cardinality(Column(db'.denoms, "Base")) = Len(db'.denoms)
                 /\ Len(db'.denoms) = Cardinality(Column(db.denoms, "Base")
                        \cup {in[i].Denom.Base : i \in DOMAIN in})
                 /\ \A i \in DOMAIN in :
                      (\A j \in DOMAIN in :
                          j > i => in[j].Denom.Base # in[i].Denom.Base) =>
                      \E k \in DOMAIN db'.denoms :
                          /\ db'.denoms[k].Base = in[i].Denom.Base
                          /\ db'.denoms[k].Symbol = in[i].Denom.Symbol
                          /\ db'.denoms[k].Name = in[i].Denom.Name
                 /\ \A k \in DOMAIN db.denoms :
                      db'.denoms[k].Base = db.denoms[k].Base
                 /\ Cardinality(Column(db'.denom_units, "Name"))
                        = Len(db'.denom_units)
                 /\ \A p \in UnitPositions(in) :
                      \A u \in {in[p[1]].DenomUnits[p[2]].DenomUnit} :
                      (\A q \in UnitPositions(in) :
                          (q[1] > p[1] \/ (q[1] = p[1] /\ q[2] > p[2])) =>
                          in[q[1]].DenomUnits[q[2]].DenomUnit.Name # u.Name) =>
                      \E k \in DOMAIN db'.denom_units :
                          /\ db'.denom_units[k].Name = u.Name
                          /\ db'.denom_units[k].Exponent = u.Exponent
                          /\ k \in DOMAIN db.denom_units =>
                                /\ db.denom_units[k].Name = u.Name
                                /\ db'.denom_units[k].DenomID
                                      = db.denom_units[k].DenomID
                 /\ SubSeq(db'.denom_unit_aliases, 1,
                           Len(db.denom_unit_aliases)) = db.denom_unit_aliases
                 /\ Cardinality(Column(db'.denom_unit_aliases, "Alias"))
                        = Len(db'.denom_unit_aliases)]_vars

\* uatom was stored with symbol ATOM; the call upserted uatom/ATOM2 and there
\* is one row of uatom, with symbol ATOM2
C14_Witness ==
    /\ IsDenomsOp(last) /\ last.err = "" /\ last.was = "ATOM"
    /\ last.input[1].Denom.Base = "uatom"
    /\ last.input[1].Denom.Symbol = "ATOM2"
    /\ Len(last.input) = 1
    /\ Cardinality({k \in DOMAIN db.denoms : db.denoms[k].Base = "uatom"}) = 1
    /\ \A k \in DOMAIN db.denoms :
          db.denoms[k].Base = "uatom" => db.denoms[k].Symbol = "ATOM2"

\* a call of two entries failed on its second entry after the first had
\* written: nothing of the call is stored
C14_RolledBack ==
    /\ IsDenomsOp(last) /\ last.err = ErrStorage /\ Len(last.input) = 2
    /\ db.denoms = <<>>

(* The REST client: C15 (under SpecClient) *)

IsClientOp(l) ==
    l.op \in {"GetBlockByHeight", "GetTxsByBlockHeight", "GetLatestBlock"}

\* the path a client operation requests
EndpointOf(l) ==
    CASE l.op = "GetBlockByHeight" ->
            Sprintf(apiEndpoints("blocks_endpoint"), l.height)
      [] l.op = "GetTxsByBlockHeight" ->
            Sprintf(apiEndpoints("txs_by_block_height_endpoint"), l.height)
      [] l.op = "GetLatestBlock" -> apiEndpoints("latest_block_endpoint")

\* C15: a client operation answers a decode error when the status is 200 and
\* the body read is not JSON of the response shape; it answers an error
\* carrying endpoint, status and body when the status is not 200; it never
\* answers nil together with a zero-valued result.
C15_ClientErrors ==
    IsClientOp(last) =>
        \A resp \in {last.input.resp} :
            /\ (/\ ~resp.transportErr /\ resp.StatusCode = 200
                /\ ~resp.readErr /\ resp.Body.kind # "json") =>
                    last.err = ErrDecode
            /\ (~resp.transportErr /\ resp.StatusCode # 200) =>
                    /\ last.err = ErrStatus
                    /\ last.ret.msg = <<EndpointOf(last), resp.Status,
                                        resp.Body>>
            /\ ~(last.err = "" /\ last.ret.result = ZeroResponse)

(* Concurrent writers: C16 (under SpecWriters) *)

\* the committed rows of a table
CommittedRows(tbl) ==
    {k \in DOMAIN db[tbl] : <<tbl, k>> \notin Hidden(sessions, 0)}

\* C16: with two writers whose block writes interleave statement by
\* statement, the committed store never holds two Block rows of one (height,
\* chain), two Tx rows of one hash, two Address rows of one address or two
\* MessageType rows of one type.
C16_NoDuplicateRows ==
    \A d \in {CommittedStore} :
        /\ \A j, k \in CommittedRows("blocks") :
              (/\ d.blocks[j].Height = d.blocks[k].Height
               /\ d.blocks[j].BlockchainID = d.blocks[k].BlockchainID) => j = k
        /\ \A j, k \in CommittedRows("txes") :
              d.txes[j].Hash = d.txes[k].Hash => j = k
        /\ \A j, k \in CommittedRows("addresses") :
              d.addresses[j].Address = d.addresses[k].Address => j = k
        /\ \A j, k \in CommittedRows("message_types") :
              d.message_types[j].MessageType = d.message_types[k].MessageType
                  => j = k

\* both writers wrote the same height at once: one has committed, the INSERT
\* of the other was rejected, and the height has its one Block row
C16_Witness ==
    /\ sessions.begun = Writers
    /\ \A w \in Writers : sessions.writers[w].status = "idle"
    /\ last.op = "IndexNewBlock" /\ last.err = ErrUnique
    /\ <<last.height, last.chain>> \in sessions.done
    /\ Cardinality({k \in CommittedRows("blocks") :
                        db.blocks[k].Height = last.height}) = 1

\* both writers have committed different heights that share addresses, the
\* transaction hash and the message type
C16_BothCommitted ==
    /\ Cardinality(sessions.done) = 2
    /\ \A w \in Writers : sessions.writers[w].status = "idle"
    /\ Len(db.txes) = 1

(* Crash and resume: C17 (under SpecCrash) *)

\* the committed store of a single writer: the rows of its open transaction
\* are the last of their tables
Durable(d, ss) == Reclaimed(View(d, ss, 0), Hidden(ss, 0))

\* the step is the COMMIT of the write of writer 1
CommitStep ==
    /\ AllDone(sessions.writers[1])
    /\ sessions'.writers[1].status = "idle"
    /\ running'

\* the heights of the range whose write has not committed
Uncommitted == {h \in RunStart..RunEnd : <<h, 1>> \notin sessions.done}

Lowest(S) == CHOOSE h \in S : \A g \in S : h <= g

\* C17: no statement of a write, no failed write and no crash changes the
\* committed rows; a COMMIT makes them the complete graph of the height, as
\* IndexNewBlock persists it in one piece; after a crash, and when the run
\* resumes, GetFirstMissingBlockInRange over the range answers the lowest
\* height of the range whose write has not committed.
C17_CrashResumable ==
    [][/\ ~CommitStep =>
            \A tbl \in DOMAIN db \ {"chains"} :
                Durable(db', sessions')[tbl] = Durable(db, sessions)[tbl]
       /\ CommitStep =>
            \E s \in {IndexNewBlockTx(Durable(db, sessions),
                                      sessions.writers[1].height,
                                      sessions.writers[1].time,
                                      WriterBlocks[sessions.writers[1].blk],
                                      sessions.writers[1].chain)} :
                /\ s.err = ""
                /\ Durable(db', sessions') = s.db
                /\ \E k \in DOMAIN db'.blocks :
                      /\ db'.blocks[k].Height = sessions.writers[1].height
                      /\ db'.blocks[k].Indexed
       /\ (/\ last'.op \in {"crash", "GetFirstMissingBlockInRange"}
           /\ last' # last /\ db'.chains # <<>>
           /\ {h \in RunStart..RunEnd : <<h, 1>> \notin sessions'.done} # {}) =>
            GetFirstMissingBlockInRange(Durable(db', sessions'), RunStart,
                                        RunEnd, 1)
                = Lowest({h \in RunStart..RunEnd :
                            <<h, 1>> \notin sessions'.done})
       /\ (sessions.next = 0 /\ sessions'.next # 0 /\ Uncommitted # {}) =>
            sessions'.next = Lowest(Uncommitted)]_vars

\* height 1 is committed; the process has crashed inside the write of height
\* 2, which had inserted rows: no row of it is left, and the first missing
\* height is 2
C17_Witness ==
    /\ last.op = "crash" /\ last.was = "open" /\ last.height = 2
    /\ last.ret[1] > 0
    /\ sessions.done = {<<1, 1>>}
    /\ Len(db.blocks) = 1 /\ db.blocks[1].Height = 1 /\ db.blocks[1].Indexed
    /\ Len(db.txes) = 1
    /\ GetFirstMissingBlockInRange(db, RunStart, RunEnd, 1) = 2

(* The graph of a block: C18 (under SpecBlock) *)

\* row IDs by natural key, 0 when there is no row
BlockRow(d, h, c) ==
    FirstIn({k \in DOMAIN d.blocks :
                d.blocks[k].Height = h /\ d.blocks[k].BlockchainID = c})
AddressRow(d, a) ==
    FirstIn({k \in DOMAIN d.addresses : d.addresses[k].Address = a})
TxRow(d, hash) == FirstIn({k \in DOMAIN d.txes : d.txes[k].Hash = hash})
TypeRow(d, type) ==
    FirstIn({k \in DOMAIN d.message_types :
                d.message_types[k].MessageType = type})
MessageRow(d, hash, type, index) ==
    FirstIn({k \in DOMAIN d.messages :
                /\ d.messages[k].TxID = TxRow(d, hash)
                /\ d.messages[k].MessageTypeID = TypeRow(d, type)
                /\ d.messages[k].MessageIndex = index})

\* the address strings of a decoded block
AddressesOf(txs) ==
    ({txs[i].SignerAddress : i \in DOMAIN txs}
        \cup UNION {{txs[i].Fees[j].PayerAddress : j \in DOMAIN txs[i].Fees} :
                        i \in DOMAIN txs}
        \cup UNION {UNION {UNION {
                {txs[i].Messages[j].TaxableTxs[n].SenderAddress,
                 txs[i].Messages[j].TaxableTxs[n].ReceiverAddress} :
                    n \in DOMAIN txs[i].Messages[j].TaxableTxs} :
                        j \in DOMAIN txs[i].Messages} : i \in DOMAIN txs})
        \ {NoAddr}

\* the keys of the decoded fees, messages and taxable transactions
FeeKeys(txs) ==
    UNION {{<<txs[i].Hash, txs[i].Fees[j].Denomination.ID>> :
                j \in DOMAIN txs[i].Fees} : i \in DOMAIN txs}
MessageKeys(txs) ==
    UNION {{<<txs[i].Hash, txs[i].Messages[j].MessageType,
              txs[i].Messages[j].MessageIndex>> :
                j \in DOMAIN txs[i].Messages} : i \in DOMAIN txs}
TaxableKeys(txs) ==
    UNION {UNION {{<<txs[i].Hash, txs[i].Messages[j].MessageType,
                     txs[i].Messages[j].MessageIndex,
                     txs[i].Messages[j].TaxableTxs[n].AmountSent,
                     txs[i].Messages[j].TaxableTxs[n].AmountReceived>> :
                        n \in DOMAIN txs[i].Messages[j].TaxableTxs} :
                    j \in DOMAIN txs[i].Messages} : i \in DOMAIN txs}

\* the store holds no row of the block: no Block row of the height and no Tx
\* row of a hash of the block
NoRowsOf(d, h, c, txs) ==
    /\ BlockRow(d, h, c) = 0
    /\ \A i \in DOMAIN txs : TxRow(d, txs[i].Hash) = 0

\* the rows of table tbl that the write has added
Added(tbl) == {k \in DOMAIN db'[tbl] : k > Len(db[tbl])}

\* C18: a block write that returns nil on a store without rows of the block
\* adds one Block row (height, chain, indexed, timestamp), one Address row for
\* each address string of the block that had none, one Tx row per hash with
\* the Block and the signer, one Fee row per (tx, denomination), one Message
\* row per (tx, type, index) and one TaxableTransaction row per (message,
\* amount sent, amount received) with the decoded amounts, and nothing else.
C18_ExactGraph ==
    [][(/\ IsWrite(last') /\ last'.err = ""
        /\ NoRowsOf(db, last'.height, last'.chain,
                    DecodedBlocks[last'.input])) =>
        \A txs \in {DecodedBlocks[last'.input]}, d \in {db'} :
            /\ \A tbl \in {"blocks", "addresses", "txes", "fees", "messages",
                           "taxable_tx"} :
                  SubSeq(d[tbl], 1, Len(db[tbl])) = db[tbl]
            /\ Cardinality(Added("blocks")) = 1
            /\ \A k \in Added("blocks") :
                  d.blocks[k] = [Height |-> last'.height,
                                 TimeStamp |-> last'.time, Indexed |-> TRUE,
                                 BlockchainID |-> last'.chain]
            /\ {d.addresses[k].Address : k \in Added("addresses")}
                  = AddressesOf(txs) \ Column(db.addresses, "Address")
            /\ Cardinality(Column(d.addresses, "Address")) = Len(d.addresses)
            /\ Cardinality(Added("txes")) = Len(txs)
            /\ \A i \in DOMAIN txs :
                  /\ TxRow(d, txs[i].Hash) \in Added("txes")
                  /\ d.txes[TxRow(d, txs[i].Hash)].BlockID
                        = BlockRow(d, last'.height, last'.chain)
                  /\ d.txes[TxRow(d, txs[i].Hash)].SignerAddressID
                        = AddressRow(d, txs[i].SignerAddress)
            /\ Cardinality(Added("fees")) = Cardinality(FeeKeys(txs))
            /\ \A i \in DOMAIN txs : \A j \in DOMAIN txs[i].Fees :
                  \E k \in Added("fees") :
                      /\ d.fees[k].TxID = TxRow(d, txs[i].Hash)
                      /\ d.fees[k].DenominationID
                            = txs[i].Fees[j].Denomination.ID
                      /\ d.fees[k].Amount = txs[i].Fees[j].Amount
                      /\ d.fees[k].PayerAddressID
                            = AddressRow(d, txs[i].Fees[j].PayerAddress)
            /\ Cardinality(Added("messages")) = Cardinality(MessageKeys(txs))
            /\ \A i \in DOMAIN txs : \A j \in DOMAIN txs[i].Messages :
                  \A m \in {txs[i].Messages[j]} :
                  /\ MessageRow(d, txs[i].Hash, m.MessageType, m.MessageIndex)
                        \in Added("messages")
                  /\ \A n \in DOMAIN m.TaxableTxs :
                        \E k \in Added("taxable_tx") :
                            /\ d.taxable_tx[k].MessageID
                                  = MessageRow(d, txs[i].Hash, m.MessageType,
                                               m.MessageIndex)
                            /\ d.taxable_tx[k].AmountSent
                                  = m.TaxableTxs[n].AmountSent
                            /\ d.taxable_tx[k].AmountReceived
                                  = m.TaxableTxs[n].AmountReceived
                            /\ d.taxable_tx[k].SenderAddressID
                                  \in {AddressRow(d, m.TaxableTxs[x].SenderAddress)
                                        : x \in DOMAIN m.TaxableTxs}
                            /\ d.taxable_tx[k].ReceiverAddressID
                                  \in {AddressRow(d, m.TaxableTxs[x].ReceiverAddress)
                                        : x \in DOMAIN m.TaxableTxs}
            /\ Cardinality(Added("taxable_tx"))
                  = Cardinality(TaxableKeys(txs))]_vars

\* the block of the end-to-end example was written to a store with the chain
\* alone: one Block, two Addresses, one Tx, one Fee, one Message and one
\* TaxableTransaction with amount_sent 500
C18_Witness ==
    /\ IsWrite(last) /\ last.err = "" /\ last.input = "good"
    /\ last.was = "none"
    /\ Len(db.blocks) = 1 /\ db.blocks[1].Indexed
    /\ Len(db.addresses) = 2 /\ Len(db.txes) = 1 /\ db.txes[1].BlockID = 1
    /\ Len(db.fees) = 1 /\ Len(db.messages) = 1
    /\ Len(db.taxable_tx) = 1 /\ db.taxable_tx[1].AmountSent = 500

----------------------------------------------------------------------------
\* Reward ingestion and the order of its input

\* the set of rows of a table
RowSet(t) == {t[k] : k \in DOMAIN t}

\* the batches of a list of candidates, in order
BatchesOf(c) == [n \in 1..Cardinality(BatchStarts(c)) |->
                    Batch(c, (n - 1) * batchSize)]

C19_ShortWitness ==
    /\ IsRewardsOp(last) /\ last.input = 5 /\ last.ret = <<1, 2>>
    /\ last.err # ""

----------------------------------------------------------------------------
\* Referential integrity

\* the tables a session may not see rows of
SessionTables ==
    {"blocks", "addresses", "txes", "fees", "message_types", "messages",
     "taxable_tx"}

\* the rows of a table that a view shows
Shown(d, tbl) ==
    {k \in DOMAIN d[tbl] :
        tbl \in SessionTables => d[tbl][k] # Tombstone(tbl)}

\* every row the view d shows references rows the view shows
References(d) ==
    /\ \A k \in Shown(d, "blocks") :
          d.blocks[k].BlockchainID \in Shown(d, "chains")
    /\ \A k \in Shown(d, "failed_blocks") :
          d.failed_blocks[k].BlockchainID \in Shown(d, "chains")
    /\ \A k \in Shown(d, "txes") :
          /\ d.txes[k].BlockID \in Shown(d, "blocks")
          /\ d.txes[k].SignerAddressID \in Shown(d, "addresses") \cup {0}
    /\ \A k \in Shown(d, "fees") :
          /\ d.fees[k].TxID \in Shown(d, "txes")
          /\ d.fees[k].PayerAddressID \in Shown(d, "addresses")
    /\ \A k \in Shown(d, "messages") :
          /\ d.messages[k].TxID \in Shown(d, "txes")
          /\ d.messages[k].MessageTypeID \in Shown(d, "message_types")
    /\ \A k \in Shown(d, "taxable_tx") :
          /\ d.taxable_tx[k].MessageID \in Shown(d, "messages")
          /\ d.taxable_tx[k].SenderAddressID
                \in Shown(d, "addresses") \cup {0}
          /\ d.taxable_tx[k].ReceiverAddressID
                \in Shown(d, "addresses") \cup {0}
    /\ \A k \in Shown(d, "taxable_event") :
          d.taxable_event[k].BlockID \in Shown(d, "blocks")

\* C20: in the committed store, and in the store as an open write sees it
\* after each of its statements, every Tx references a Block, every Fee a Tx
\* and a payer Address, every Message a Tx and a MessageType, every
\* TaxableTransaction a Message (and a sender and receiver Address when set),
\* every FailedBlock and Block a Chain and every TaxableEvent a Block that is
\* there.
C20_ReferentialIntegrity ==
    /\ References(CommittedStore)
    /\ \A w \in Writers :
          sessions.writers[w].status = "open" =>
              References(View(db, sessions, w))

\* a committed store with a row of every referencing table
C20_Witness ==
    /\ Quiet
    /\ \A tbl \in {"blocks", "failed_blocks", "txes", "fees", "messages",
                   "taxable_tx", "taxable_event"} : db[tbl] # <<>>

\* an open write that has stored a TaxableTransaction, next to a committed
\* TaxableEvent and its Block
C20_OpenWitness ==
    /\ sessions.writers[1].status = "open"
    /\ \E p \in sessions.writers[1].rows : p[1] = "taxable_tx"
    /\ CommittedStore.taxable_event # <<>>
    /\ \E k \in DOMAIN CommittedStore.blocks :
          CommittedStore.blocks[k] # Tombstone("blocks")

----------------------------------------------------------------------------
\* The retry worklist and the indexed blocks

\* the (height, chain) pairs with a FailedBlock row
FailedPairs(d) ==
    {<<d.failed_blocks[k].Height, d.failed_blocks[k].BlockchainID>> :
        k \in DOMAIN d.failed_blocks}

\* the (height, chain) pairs with a Block row with indexed = true
IndexedPairs(d) ==
    {<<d.blocks[k].Height, d.blocks[k].BlockchainID>> :
        k \in {j \in DOMAIN d.blocks : d.blocks[j].Indexed}}

\* C21: with RecordFailedBlock(h) called only directly after a WriteBlock(h)
\* that returned an error, no committed store holds for one (height, chain)
\* both a FailedBlock row and a Block row with indexed = true.
C21_WorklistDisjoint ==
    FailedPairs(CommittedStore) \cap IndexedPairs(CommittedStore) = {}

----------------------------------------------------------------------------
\* Taxable movements of a message

\* the TaxableTransaction rows of a message row
TaxableRowsOf(d, msgID) ==
    {k \in DOMAIN d.taxable_tx : d.taxable_tx[k].MessageID = msgID}

\* C22: after a block write that succeeded, every message of the block has as
\* many TaxableTransaction rows as the decoder supplied taxable
\* sub-transactions for it, also when two of them have equal amounts.
C22_RowPerMovement ==
    (IsWrite(last) /\ last.err = "") =>
        \A txs \in {DecodedBlocks[last.input]} :
            \A i \in DOMAIN txs : \A j \in DOMAIN txs[i].Messages :
                Cardinality(TaxableRowsOf(db,
                    MessageRow(db, txs[i].Hash,
                               txs[i].Messages[j].MessageType,
                               txs[i].Messages[j].MessageIndex)))
                    = Len(txs[i].Messages[j].TaxableTxs)

----------------------------------------------------------------------------
\* Rows found by their natural key

\* the Tx rows of a hash and the Fee rows of a (tx, denomination)
TxRowsOf(d, hash) == {k \in DOMAIN d.txes : d.txes[k].Hash = hash}
FeeRowsOf(d, txID, denomID) ==
    {k \in DOMAIN d.fees :
        d.fees[k].TxID = txID /\ d.fees[k].DenominationID = denomID}

\* C23: a block write that meets a Tx row of the hash of one of its
\* transactions adds no Tx row of that hash and leaves the row's block, code
\* and signer as they were; a Fee row of (tx, denomination) it meets keeps its
\* amount and payer; and no operation changes or deletes an Address row.
C23_FirstWriteWins ==
    [][/\ Len(db'.addresses) >= Len(db.addresses)
       /\ SubSeq(db'.addresses, 1, Len(db.addresses)) = db.addresses
       /\ IsWrite(last') =>
            \A txs \in {DecodedBlocks[last'.input]} : \A i \in DOMAIN txs :
              \A k \in TxRowsOf(db, txs[i].Hash) :
                /\ TxRowsOf(db', txs[i].Hash) = {k}
                /\ db'.txes[k] = db.txes[k]
                /\ \A j \in DOMAIN txs[i].Fees :
                     \A f \in FeeRowsOf(db, k, txs[i].Fees[j].Denomination.ID) :
                        /\ FeeRowsOf(db', k,
                                txs[i].Fees[j].Denomination.ID) = {f}
                        /\ db'.fees[f] = db.fees[f]]_vars

\* hash abc123, stored with code 0, signer and payer cosmos1foo and a fee of
\* 500 at one height, has been written again with code 5, cosmos1bar and 700
\* at another height
C23_Witness ==
    /\ IsWrite(last) /\ last.input = "changed" /\ last.err = ""
    /\ \E k \in TxRowsOf(db, "abc123") :
          /\ db.txes[k].Code = 0
          /\ db.addresses[db.txes[k].SignerAddressID].Address = "cosmos1foo"
          /\ db.blocks[db.txes[k].BlockID].Height # last.height
          /\ \E f \in FeeRowsOf(db, k, 1) :
                /\ db.fees[f].Amount = 500
                /\ db.addresses[db.fees[f].PayerAddressID].Address
                      = "cosmos1foo"

----------------------------------------------------------------------------
\* Reward ingestion and gap detection

\* the Block rows of a height, of any chain
BlockRowsAt(d, h) == {k \in DOMAIN d.blocks : d.blocks[k].Height = h}

\* what gap detection reports for every range and chain
GapReport(d) ==
    [q \in (1..(SideMaxHeight + 1)) \X (1..(SideMaxHeight + 1))
            \X DOMAIN ChainIDs |->
        GetFirstMissingBlockInRange(d, q[1], q[2], q[3])]

\* C24: a reward ingestion leaves what gap detection reports for every range
\* and chain as it was: the Block rows it creates have indexed = false and
\* their heights are still reported missing, the Block rows it meets keep
\* indexed and timestamp, and no row is added for a height that has an indexed
\* row; a block write that succeeds then makes the height indexed in the one
\* row of its height and chain.
C24_RewardsKeepGaps ==
    [][/\ IsRewardsOp(last') =>
            /\ GapReport(db') = GapReport(db)
            /\ SubSeq(db'.blocks, 1, Len(db.blocks)) = db.blocks
            /\ \A k \in (Len(db.blocks) + 1)..Len(db'.blocks) :
                  /\ ~db'.blocks[k].Indexed
                  /\ GetFirstMissingBlockInRange(db', db'.blocks[k].Height,
                        SideMaxHeight, db'.blocks[k].BlockchainID)
                        = db'.blocks[k].Height
            /\ (\E k \in BlockRowsAt(db, last'.height) : db.blocks[k].Indexed)
                  => Len(db'.blocks) = Len(db.blocks)
       /\ (IsWrite(last') /\ last'.err = "") =>
            \E k \in DOMAIN db'.blocks :
                /\ db'.blocks[k].Indexed
                /\ {j \in BlockRowsAt(db', last'.height) :
                        db'.blocks[j].BlockchainID = last'.chain} = {k}]_vars

\* rewards of height 1 have created its Block row, not indexed, on a chain
\* whose height 2 is indexed: height 1 is the gap
C24_Witness ==
    /\ IsRewardsOp(last) /\ last.err = "" /\ last.height = 1
    /\ \E k \in BlockRowsAt(db, 1) :
          /\ ~db.blocks[k].Indexed
          /\ db.blocks[k].BlockchainID = last.chain
          /\ db.taxable_event # <<>>
          /\ 2 \in IndexedHeights(db, last.chain)
          /\ GetFirstMissingBlockInRange(db, 1, 2, last.chain) = 1

\* rewards of a height whose Block row is indexed are stored on that row
C24_ReuseWitness ==
    /\ IsRewardsOp(last) /\ last.err = ""
    /\ \E k \in DOMAIN db.blocks :
          /\ BlockRowsAt(db, last.height) = {k}
          /\ db.blocks[k].Indexed /\ db.blocks[k].TimeStamp = 1
          /\ \E e \in DOMAIN db.taxable_event :
                db.taxable_event[e].BlockID = k

====
